---- MODULE Spec2Model ----
(***************************************************************************)
(* Model of the analytic-engine ingestion pipeline:                        *)
(*   - the submission gateway      (src/src/apps/uploads/api.py)           *)
(*   - the ingestion run controller (src/src/apps/uploads/tasks.py)        *)
(*   - the record validator         (src/src/apps/uploads/tasks.py)        *)
(*   - the store tables             (src/src/apps/core/models.py)          *)
(* Strings whose characters the code inspects (file names, AMOUNT,         *)
(* CUSTOMER_PHONE) are sequences of one-character strings.                 *)
(***************************************************************************)
EXTENDS Integers, Sequences, FiniteSets, TLC

VARIABLES
    now,           \* the wall clock (timezone.now()), in whole instants
    down,          \* the external services that currently fail when used
    gw,            \* per request of ingest_csv: position, upload, response
    tasks,         \* table upload_tasks: task_id -> row, or NoRow
    staged,        \* task ids whose staged file data/temp/<id>_<name> exists
    ctl,           \* per run of process_csv_file: position and locals
    transactions,  \* table transactions: a set of rows
    merchants,     \* table merchants: the set of merchant_id keys
    reply,         \* the last answer of a read endpoint or of the validator
    report,        \* the full_report request: its position and its four futures
    query,         \* a read request between its queries: its position and locals
    redis          \* the counter service: its keyspace_hits and keyspace_misses

vars ==
    <<now, down, gw, tasks, staged, ctl, transactions, merchants, reply, report,
      query, redis>>

(***************************************************************************)
(* Bounds of the model.                                                    *)
(***************************************************************************)
\* Longest source file, in data rows.
MaxRows == 3
\* Longest source file of the two-run specification.
MaxPairRows == 2
\* Last instant the clock reaches.
MaxNow == 1
\* Most hits, and most misses, the counter service counts between restarts.
MaxCounter == 2
\* batch_size of process_csv_file (1000 in the source), scaled down so that
\* full and partial batches both occur within MaxRows rows.
batch_size == 2

\* file.read(2048): the length of the header sample, in bytes.
sample_size == 2048
\* The 3 GiB ceiling on file.size, in KiB (3 * 1024 * 1024 KiB).
max_size_kib == 3145728

\* uuid.uuid4() values: the run identifiers the gateway can generate.
TaskIds == {"u1", "u2"}

\* No read endpoint has answered yet.
NoReply == [op |-> "none"]
\* No combined report has been asked for.
NoReport == [pc |-> "idle"]
\* No read request is between two of its queries.
NoQuery == [pc |-> "idle"]
\* redis_client.info('stats') of a counter service nobody has used yet.
NoStats == [keyspace_hits |-> 0, keyspace_misses |-> 0]
\* min(a, b).
Min(a, b) == IF a < b THEN a ELSE b

\* initial_redis_stats = None: the snapshot of the counter service failed.
NoSnapshot == [taken |-> FALSE]

\* The absence of a row in a table, and of a value in a nullable column.
NoRow == [status |-> "NoRow"]
Null == "Null"
\* Python's None for a cell the csv reader did not find: as a label and as
\* a character sequence.
NoneLabel == "None"
None == <<"None">>

\* The services whose failure the code handles.
Services == {"store", "fs", "dispatcher", "thread"}

(***************************************************************************)
(* Character helpers.                                                      *)
(***************************************************************************)
Digits == {"0", "1", "2", "3", "4", "5", "6", "7", "8", "9"}

DigitVal(c) ==
    CASE c = "0" -> 0 [] c = "1" -> 1 [] c = "2" -> 2 [] c = "3" -> 3
      [] c = "4" -> 4 [] c = "5" -> 5 [] c = "6" -> 6 [] c = "7" -> 7
      [] c = "8" -> 8 [] c = "9" -> 9

IsDigit(c) == c \in Digits
IsSpace(c) == c \in {" ", "\t", "\n"}

RECURSIVE Pow10(_)
Pow10(n) == IF n = 0 THEN 1 ELSE 10 * Pow10(n - 1)

\* str(x or '').strip() on a cell given as a sequence of characters
\* (None for a cell the reader did not find).
RECURSIVE LStrip(_)
LStrip(s) == IF s # <<>> /\ IsSpace(Head(s)) THEN LStrip(Tail(s)) ELSE s

RECURSIVE RStrip(_)
RStrip(s) ==
    IF s # <<>> /\ IsSpace(s[Len(s)]) THEN RStrip(SubSeq(s, 1, Len(s) - 1)) ELSE s

StrOrEmpty(v) == IF v = None THEN <<>> ELSE v
Strip(v) == RStrip(LStrip(StrOrEmpty(v)))

\* The same on a cell given as a label: the labels of the model carry no
\* surrounding white space, so only None and the blank cells change.
StripLabel(v) == IF v \in {NoneLabel, "", " "} THEN "" ELSE v

\* str.endswith
EndsWith(s, suffix) ==
    /\ Len(s) >= Len(suffix)
    /\ SubSeq(s, Len(s) - Len(suffix) + 1, Len(s)) = suffix

(***************************************************************************)
(* Record validator: clean_transaction_data.                               *)
(***************************************************************************)
\* str.upper() and str.title() on the labels of the model.
Upper(s) ==
    CASE s = "north" -> "NORTH"
      [] s = "grocery" -> "GROCERY"
      [] s = "Grocery" -> "GROCERY"
      [] s = "Groceries" -> "GROCERIES"
      [] s = "clothes" -> "CLOTHES"
      [] s = "Clothes" -> "CLOTHES"
      [] s = "books" -> "BOOKS"
      [] s = "Books" -> "BOOKS"
      [] OTHER -> s

Title(s) ==
    CASE s = "grocery" -> "Grocery"
      [] s = "GROCERY" -> "Grocery"
      [] s = "GROCERIES" -> "Groceries"
      [] s = "clothes" -> "Clothes"
      [] s = "CLOTHES" -> "Clothes"
      [] s = "books" -> "Books"
      [] s = "BOOKS" -> "Books"
      [] OTHER -> s

\* category_mapping.get(key, default)
category_mapping(key, default) ==
    CASE key \in {"GROCERY", "GROCERIES"} -> "Grocery"
      [] key = "FOOD" -> "Food"
      [] key \in {"ELECTRONICS", "ELECTRONIC"} -> "Electronics"
      [] key \in {"FASHION", "CLOTHING", "CLOTHES"} -> "Fashion"
      [] key \in {"TRANSPORT", "TRANSPORTATION"} -> "Transport"
      [] key \in {"UTILITIES", "UTILITY"} -> "Utilities"
      [] key \in {"HEALTHCARE", "HEALTH"} -> "Healthcare"
      [] key \in {"EDUCATION", "EDU"} -> "Education"
      [] OTHER -> default

\* re.sub(r'[^\d.-]', '', amount_str)
IsAmountChar(c) == IsDigit(c) \/ c = "." \/ c = "-"
amount_clean(amount_str) == SelectSeq(amount_str, IsAmountChar)

\* Decimal(text) for a text of digits, '.' and '-': an optional leading
\* sign, then digits with at most one point and at least one digit.
\* [ok, neg, m, e] stands for the value (-1)^neg * m / 10^e.
RECURSIVE DigitsValue(_)
DigitsValue(s) ==
    IF s = <<>> THEN 0 ELSE 10 * DigitsValue(SubSeq(s, 1, Len(s) - 1)) + DigitVal(s[Len(s)])

IsPoint(c) == c = "."

\* Mutant of Decimal: a text without digits is read as zero.
DecimalBlankIsZero(text) ==
    LET neg == text # <<>> /\ Head(text) = "-"
        body == IF neg THEN Tail(text) ELSE text
        points == Len(SelectSeq(body, IsPoint))
        ds == SelectSeq(body, IsDigit)
        pointAt == CHOOSE i \in 1..Len(body) : body[i] = "."
        ok == points <= 1 /\ Len(ds) + points = Len(body)
    IN  IF ~ok THEN [ok |-> FALSE, neg |-> FALSE, m |-> 0, e |-> 0]
        ELSE [ok |-> TRUE, neg |-> neg, m |-> DigitsValue(ds),
              e |-> IF points = 0 THEN 0 ELSE Len(body) - pointAt]

Decimal(text) ==
    LET neg == text # <<>> /\ Head(text) = "-"
        body == IF neg THEN Tail(text) ELSE text
        points == Len(SelectSeq(body, IsPoint))
        ds == SelectSeq(body, IsDigit)
        pointAt == CHOOSE i \in 1..Len(body) : body[i] = "."
        ok == /\ ds # <<>>
              /\ points <= 1
              /\ Len(ds) + points = Len(body)
    IN  IF ~ok THEN [ok |-> FALSE, neg |-> FALSE, m |-> 0, e |-> 0]
        ELSE [ok |-> TRUE, neg |-> neg, m |-> DigitsValue(ds),
              e |-> IF points = 0 THEN 0 ELSE Len(body) - pointAt]

DecimalNegative(d) == d.neg /\ d.m > 0
\* Mutant of DecimalGreater: the ceiling itself is refused.
DecimalGreaterOrEqual(d, n) == ~d.neg /\ d.m >= n * Pow10(d.e)

DecimalGreater(d, n) == ~d.neg /\ d.m > n * Pow10(d.e)
\* The value in hundredths, as the column transactions.amount holds it
\* (decimal_places = 2); the amounts of the model have at most two places.
Hundredths(d) ==
    IF d.e <= 2 THEN d.m * Pow10(2 - d.e) ELSE d.m \div Pow10(d.e - 2)

\* A TIMESTAMP cell is [fmt, at, aware]: the notation it is written in, the
\* instant it denotes when read in the reference zone (UTC), and whether
\* the text carries a zone offset.
\* datetime.fromisoformat parses the ISO notation and also its
\* space-separated and date-only variants.
IsoParsable == {"iso", "ymd_hms", "ymd_hm", "ymd"}
\* The entries of `formats` that fromisoformat does not parse already.
FallbackParsable == {"slash_ymd_hms", "dmy_hms"}

\* [ok, at, aware] after lines 180-204: a fallback match is made aware, an
\* ISO parse keeps the awareness of the text.
parse_timestamp(ts) ==
    IF ts.fmt \in IsoParsable THEN [ok |-> TRUE, at |-> ts.at, aware |-> ts.aware]
    ELSE IF ts.fmt \in FallbackParsable THEN [ok |-> TRUE, at |-> ts.at, aware |-> TRUE]
    ELSE [ok |-> FALSE, at |-> 0, aware |-> FALSE]

\* Mutant of timestamp_rejected: the current instant itself is refused.
timestamp_rejected_inclusive(p, t) == ~p.aware \/ p.at >= t

\* timestamp > django_timezone.now(): comparing a naive datetime with the
\* aware now() raises TypeError, which line 210 turns into a rejection.
timestamp_rejected(p, t) == ~p.aware \/ p.at > t

\* Lines 214-221.
IsPhoneChar(c) == IsDigit(c) \/ c = "+"
INVALID == <<"I", "N", "V", "A", "L", "I", "D">>
clean_phone(customer_phone) ==
    IF customer_phone = <<>> THEN <<>>
    ELSE LET phone_clean == SelectSeq(customer_phone, IsPhoneChar)
             n == Len(SelectSeq(phone_clean, IsDigit))
         IN  IF n < 10 \/ n > 15 THEN INVALID ELSE phone_clean

Rejected == [ok |-> FALSE]

\* clean_transaction_data(row) evaluated at instant t, without its
\* get_or_create side effect (see MerchantsAfter).
clean_transaction_data(row, t) ==
    LET transaction_id == StripLabel(row.TRANSACTION_ID)
        merchant_id == StripLabel(row.MERCHANT_ID)
        zone == Upper(StripLabel(row.ZONE))
        category == Title(StripLabel(row.CATEGORY))
        amount_str == Strip(row.AMOUNT)
        blank_ts == row.TIMESTAMP.fmt = "blank"
        customer_phone == Strip(row.CUSTOMER_PHONE)
        amount == Decimal(amount_clean(amount_str))
        timestamp == parse_timestamp(row.TIMESTAMP)
    IN  IF \/ transaction_id = "" \/ merchant_id = "" \/ zone = ""
           \/ category = "" \/ amount_str = <<>> \/ blank_ts
        THEN Rejected
        ELSE IF ~amount.ok \/ DecimalNegative(amount) \/ DecimalGreater(amount, 1000000)
        THEN Rejected
        ELSE IF ~timestamp.ok \/ timestamp_rejected(timestamp, t)
        THEN Rejected
        ELSE [ok |-> TRUE,
              data |-> [transaction_id |-> transaction_id,
                        merchant_id |-> merchant_id,
                        zone |-> zone,
                        category |-> category_mapping(Upper(category), category),
                        amount |-> Hundredths(amount),
                        timestamp |-> timestamp.at,
                        customer_phone |-> clean_phone(customer_phone)]]

\* Mutant of MerchantsAfter: the table is replaced by the new record.
MerchantsAfterReplacing(ms, result, storeDown) ==
    IF result.ok /\ ~storeDown THEN {result.data.merchant_id} ELSE ms

\* Merchant.objects.get_or_create(merchant_id=...) inside try/except: the
\* row is added unless the store fails, and a failure is swallowed.
MerchantsAfter(ms, result, storeDown) ==
    IF result.ok /\ ~storeDown THEN ms \cup {result.data.merchant_id} ELSE ms

(***************************************************************************)
(* Store tables.                                                           *)
(***************************************************************************)
\* Transaction(**transaction_data): an unsaved row, its AutoField id unset.
Transaction(transaction_data) == [id |-> 0] @@ transaction_data

\* The unique index on transactions.transaction_id (unique=True).
Conflicts(table, row) == \E t \in table : t.transaction_id = row.transaction_id

\* One inserted row takes the next id of the table.
InsertRow(table, row) == table \cup {[row EXCEPT !.id = Cardinality(table) + 1]}

\* INSERT IGNORE of the rows in order: a row that meets the unique index is
\* skipped.
RECURSIVE InsertIgnore(_, _)
InsertIgnore(table, batch) ==
    IF batch = <<>> THEN table
    ELSE InsertIgnore(IF Conflicts(table, Head(batch)) THEN table
                      ELSE InsertRow(table, Head(batch)),
                      Tail(batch))

\* Mutant of bulk_create: the unique index is missing, every row is inserted.
RECURSIVE InsertAll(_, _)
InsertAll(table, batch) ==
    IF batch = <<>> THEN table ELSE InsertAll(InsertRow(table, Head(batch)), Tail(batch))

bulk_create_without_unique(table, batch) ==
    [raised |-> FALSE, table |-> InsertAll(table, batch)]

\* Mutant of bulk_create: ignore_conflicts is not passed, a row that meets
\* the unique index raises IntegrityError and nothing is inserted.
bulk_create_strict(table, batch) ==
    IF Cardinality(InsertIgnore(table, batch)) < Cardinality(table) + Len(batch)
    THEN [raised |-> TRUE, table |-> table]
    ELSE [raised |-> FALSE, table |-> InsertIgnore(table, batch)]

\* Transaction.objects.bulk_create(batch, ignore_conflicts=True):
\* [raised, table], whether the call raised and the table after it.
bulk_create(table, batch) == [raised |-> FALSE, table |-> InsertIgnore(table, batch)]

\* UploadTask.objects.create(task_id=..., filename=..., file_size=...,
\* status='QUEUED') with the defaults of the model's columns.
NewUploadTask(t) ==
    [status |-> "QUEUED", rows_processed |-> 0, rows_rejected |-> 0,
     metrics |-> Null, cache_hit_rate |-> Null, error_message |-> Null,
     created_at |-> t, completed_at |-> Null]

(***************************************************************************)
(* Submission gateway: ingest_csv.                                         *)
(***************************************************************************)
required_headers ==
    <<"TRANSACTION_ID", "MERCHANT_ID", "ZONE", "CATEGORY", "AMOUNT", "TIMESTAMP",
      "CUSTOMER_PHONE">>

\* Length in bytes of the header names of the model.
Width(h) ==
    CASE h = "TRANSACTION_ID" -> 14
      [] h = "MERCHANT_ID" -> 11
      [] h = "ZONE" -> 4
      [] h = "CATEGORY" -> 8
      [] h = "AMOUNT" -> 6
      [] h = "amount" -> 6
      [] h = "TIMESTAMP" -> 9
      [] h = "CUSTOMER_PHONE" -> 14
      [] h = "NOTE" -> 4
      [] h = "WIDE_NOTE" -> 2040

\* What remains of a header name cut by the end of the sample.
CutName == "<cut>"

\* reader.fieldnames of csv.DictReader(io.StringIO(sample)): the names of
\* the header row that lie within the first sample_size bytes; `at` is the
\* offset of the first name of `header`.
RECURSIVE SampledFrom(_, _)
SampledFrom(header, at) ==
    IF header = <<>> \/ at > sample_size THEN <<>>
    ELSE IF at + Width(Head(header)) <= sample_size
         THEN <<Head(header)>> \o SampledFrom(Tail(header), at + Width(Head(header)) + 1)
         ELSE <<CutName>>

fieldnames(header) == SampledFrom(header, 0)

Range(f) == {f[i] : i \in DOMAIN f}

missing_headers(headers) ==
    LET absent(h) == h \notin Range(headers)
    IN  SelectSeq(required_headers, absent)

SizeIsZero(size) == size.kib = 0 /\ size.rem = 0
\* file.size > 3 * 1024 * 1024 * 1024, on a size of kib * 1024 + rem bytes.
SizeTooLarge(size) ==
    size.kib > max_size_kib \/ (size.kib = max_size_kib /\ size.rem > 0)

BadRequest(message) == [status |-> 400, message |-> message]
Passed == [status |-> 0, message |-> "passed"]

\* Mutant of Preflight: the size ceiling is not checked.
PreflightWithoutCeiling(file) ==
    IF file.name = <<>> THEN BadRequest("No file provided")
    ELSE IF SizeIsZero(file.size) THEN BadRequest("Empty file not allowed")
    ELSE IF ~EndsWith(file.name, <<".", "c", "s", "v">>)
         THEN BadRequest("Only CSV files allowed")
    ELSE IF file.sample = "unreadable" THEN BadRequest("Failed to validate CSV format")
    ELSE IF file.sample = "blank"
         THEN BadRequest("File appears to be empty or corrupted")
    ELSE IF file.sample = "malformed" THEN BadRequest("Malformed CSV file")
    ELSE IF fieldnames(file.header) = <<>> THEN BadRequest("No CSV headers found")
    ELSE IF missing_headers(fieldnames(file.header)) # <<>>
         THEN [status |-> 400, message |-> "Missing required headers",
               missing |-> missing_headers(fieldnames(file.header))]
    ELSE Passed

\* Lines 19-68: the answer of the first failing check, or Passed.
Preflight(file) ==
    IF file.name = <<>> THEN BadRequest("No file provided")
    ELSE IF SizeIsZero(file.size) THEN BadRequest("Empty file not allowed")
    ELSE IF ~EndsWith(file.name, <<".", "c", "s", "v">>)
         THEN BadRequest("Only CSV files allowed")
    ELSE IF SizeTooLarge(file.size) THEN BadRequest("File too large (max 3GB)")
    ELSE IF file.sample = "unreadable" THEN BadRequest("Failed to validate CSV format")
    ELSE IF file.sample = "blank"
         THEN BadRequest("File appears to be empty or corrupted")
    ELSE IF file.sample = "malformed" THEN BadRequest("Malformed CSV file")
    ELSE IF fieldnames(file.header) = <<>> THEN BadRequest("No CSV headers found")
    ELSE IF missing_headers(fieldnames(file.header)) # <<>>
         THEN [status |-> 400, message |-> "Missing required headers",
               missing |-> missing_headers(fieldnames(file.header))]
    ELSE Passed

NoUpload == [name |-> <<>>]
NoResponse == [status |-> 0, message |-> "none"]

\* A request arrives with `file`; lines 19-68 run.
Submit(id, file) ==
    /\ gw[id].pc = "idle"
    /\ LET r == Preflight(file)
       IN  gw' = [gw EXCEPT ![id] =
                    IF r = Passed
                    THEN [pc |-> "create", file |-> file, response |-> NoResponse]
                    ELSE [pc |-> "done", file |-> file, response |-> r]]
    /\ UNCHANGED <<now, down, tasks, staged, ctl, transactions, merchants, reply, report,
                   query, redis>>

\* Lines 70-86.
CreateTask(id) ==
    /\ gw[id].pc = "create"
    /\ IF "store" \in down
       THEN /\ gw' = [gw EXCEPT ![id].pc = "done",
                                ![id].response = [status |-> 500, message |-> "Database error"]]
            /\ UNCHANGED tasks
       ELSE /\ tasks' = [tasks EXCEPT ![id] = NewUploadTask(now)]
            /\ gw' = [gw EXCEPT ![id].pc = "stage"]
    /\ UNCHANGED <<now, down, staged, ctl, transactions, merchants, reply, report,
                   query, redis>>

\* Mutant of StageFile: the hand-off is reached before the bytes are written.
StageFileDeferred(id) ==
    /\ gw[id].pc = "stage"
    /\ gw' = [gw EXCEPT ![id].pc = "dispatch"]
    /\ UNCHANGED <<now, down, tasks, staged, ctl, transactions, merchants, reply, report,
                   query, redis>>

\* Lines 88-104.
StageFile(id) ==
    /\ gw[id].pc = "stage"
    /\ IF "fs" \in down
       THEN /\ gw' = [gw EXCEPT ![id].pc = "done",
                                ![id].response = [status |-> 500, message |-> "Failed to save file"]]
            /\ UNCHANGED staged
       ELSE /\ staged' = staged \cup {id}
            /\ gw' = [gw EXCEPT ![id].pc = "dispatch"]
    /\ UNCHANGED <<now, down, tasks, ctl, transactions, merchants, reply, report,
                   query, redis>>

\* Lines 107-109: process_csv_file.delay(...).
Dispatch(id) ==
    /\ gw[id].pc = "dispatch"
    /\ IF "dispatcher" \in down
       THEN /\ gw' = [gw EXCEPT ![id].pc = "fallback"]
            /\ UNCHANGED ctl
       ELSE /\ ctl' = [ctl EXCEPT ![id].pc = "start"]
            /\ gw' = [gw EXCEPT ![id].pc = "respond"]
    /\ UNCHANGED <<now, down, tasks, staged, transactions, merchants, reply, report,
                   query, redis>>

\* Lines 110-116: threading.Thread(target=process_csv_file, ...).start().
Fallback(id) ==
    /\ gw[id].pc = "fallback"
    /\ IF "thread" \in down
       THEN /\ gw' = [gw EXCEPT ![id].pc = "rollback"]
            /\ UNCHANGED ctl
       ELSE /\ ctl' = [ctl EXCEPT ![id].pc = "start"]
            /\ gw' = [gw EXCEPT ![id].pc = "respond"]
    /\ UNCHANGED <<now, down, tasks, staged, transactions, merchants, reply, report,
                   query, redis>>

\* Mutant of Rollback: the run record is not deleted.
RollbackFileOnly(id) ==
    /\ gw[id].pc = "rollback"
    /\ staged' = IF "fs" \in down THEN staged ELSE staged \ {id}
    /\ gw' = [gw EXCEPT ![id].pc = "done",
                        ![id].response = [status |-> 503,
                                          message |-> "Processing queue unavailable"]]
    /\ UNCHANGED <<now, down, tasks, ctl, transactions, merchants, reply, report,
                   query, redis>>

\* Lines 117-123: os.remove then upload_task.delete() in one try block
\* whose failure is swallowed; a failed os.remove skips the delete.
Rollback(id) ==
    /\ gw[id].pc = "rollback"
    /\ staged' = IF "fs" \in down THEN staged ELSE staged \ {id}
    /\ tasks' = IF "fs" \in down \/ "store" \in down THEN tasks
                ELSE [tasks EXCEPT ![id] = NoRow]
    /\ gw' = [gw EXCEPT ![id].pc = "done",
                        ![id].response = [status |-> 503,
                                          message |-> "Processing queue unavailable"]]
    /\ UNCHANGED <<now, down, ctl, transactions, merchants, reply, report,
                   query, redis>>

\* Lines 125-139: the receipt.
Respond(id) ==
    /\ gw[id].pc = "respond"
    /\ gw' = [gw EXCEPT ![id].pc = "done",
                        ![id].response = [status |-> 200, message |-> "accepted",
                                          task_id |-> id, task_status |-> "QUEUED"]]
    /\ UNCHANGED <<now, down, tasks, staged, ctl, transactions, merchants, reply, report,
                   query, redis>>

(***************************************************************************)
(* Ingestion run controller: process_csv_file.                             *)
(***************************************************************************)
\* The rows csv.DictReader yields from the staged file of run `id`.
SourceRows(id) == gw[id].file.rows

\* The locals of a run, and bulk_create_calls, the number of calls of
\* Transaction.objects.bulk_create the run has issued; initial_redis_stats
\* is None (NoSnapshot) until the snapshot is taken, and after it failed.
IdleRun ==
    [pc |-> "idle", task |-> NoRow, rows_processed |-> 0, rows_failed |-> 0,
     batch_data |-> <<>>, next_row |-> 1, error |-> Null, bulk_create_calls |-> 0,
     initial_redis_stats |-> NoSnapshot]

\* Lines 116-124 are entered with the exception `e`.
Raise(run, e) == [run EXCEPT !.pc = "handler", !.error = e]

\* Mutant of Begin: the PROCESSING status is set on the fetched record and
\* not saved.
BeginWithoutSave(id) ==
    /\ ctl[id].pc = "start"
    /\ LET initial_redis_stats == IF "counter" \in down THEN NoSnapshot ELSE redis
       IN  IF "store" \in down \/ tasks[id] = NoRow
           THEN ctl' = [ctl EXCEPT ![id] =
                          Raise([@ EXCEPT !.initial_redis_stats = initial_redis_stats],
                                "store error")]
           ELSE ctl' = [ctl EXCEPT ![id].pc = "open",
                                   ![id].task = [tasks[id] EXCEPT !.status = "PROCESSING"],
                                   ![id].initial_redis_stats = initial_redis_stats]
    /\ UNCHANGED <<now, down, gw, tasks, staged, transactions, merchants, reply, report,
                   query, redis>>

\* Lines 22-27: redis_client.info('stats'), or None when the counter service
\* does not answer.
redis_snapshot(stats, counterDown) == IF counterDown THEN NoSnapshot ELSE stats

\* Lines 22-32: the snapshot of the counter service is taken, the record is
\* fetched, marked PROCESSING and saved.
Begin(id) ==
    /\ ctl[id].pc = "start"
    /\ LET initial_redis_stats == redis_snapshot(redis, "counter" \in down)
       IN  IF "store" \in down \/ tasks[id] = NoRow
           THEN /\ ctl' = [ctl EXCEPT ![id] =
                             Raise([@ EXCEPT !.initial_redis_stats = initial_redis_stats],
                                   "store error")]
                /\ UNCHANGED tasks
           ELSE LET task == [tasks[id] EXCEPT !.status = "PROCESSING"]
                IN  /\ tasks' = [tasks EXCEPT ![id] = task]
                    /\ ctl' = [ctl EXCEPT ![id].pc = "open", ![id].task = task,
                                          ![id].initial_redis_stats = initial_redis_stats]
    /\ UNCHANGED <<now, down, gw, staged, transactions, merchants, reply, report,
                   query, redis>>

\* Lines 34-44: the existence check, the counters and the open.
Open(id) ==
    /\ ctl[id].pc = "open"
    /\ ctl' = [ctl EXCEPT ![id] =
                 IF id \notin staged THEN Raise(@, "File not found")
                 ELSE IF "fs" \in down THEN Raise(@, "read error")
                 ELSE [@ EXCEPT !.pc = "row", !.rows_processed = 0, !.rows_failed = 0,
                                !.batch_data = <<>>, !.next_row = 1]]
    /\ UNCHANGED <<now, down, gw, tasks, staged, transactions, merchants, reply, report,
                   query, redis>>

\* Lines 46-52 and 62-67: one iteration of the row loop up to the test of
\* the batch length; reading the next row can fail.
Row(id) ==
    /\ ctl[id].pc = "row"
    /\ IF "fs" \in down
       THEN /\ ctl' = [ctl EXCEPT ![id] = Raise(@, "read error")]
            /\ UNCHANGED merchants
       ELSE IF ctl[id].next_row > Len(SourceRows(id))
       THEN /\ ctl' = [ctl EXCEPT ![id].pc = "final"]
            /\ UNCHANGED merchants
       ELSE LET transaction_data ==
                    clean_transaction_data(SourceRows(id)[ctl[id].next_row], now)
            IN  /\ merchants' = MerchantsAfter(merchants, transaction_data, "store" \in down)
                /\ ctl' = [ctl EXCEPT ![id] =
                             IF ~transaction_data.ok
                             THEN [@ EXCEPT !.rows_failed = @ + 1, !.next_row = @ + 1]
                             ELSE IF Len(@.batch_data) + 1 >= batch_size
                             THEN [@ EXCEPT !.batch_data =
                                                Append(@, Transaction(transaction_data.data)),
                                            !.pc = "flush"]
                             ELSE [@ EXCEPT !.batch_data =
                                                Append(@, Transaction(transaction_data.data)),
                                            !.next_row = @ + 1]]
    /\ UNCHANGED <<now, down, gw, tasks, staged, transactions, reply, report,
                   query, redis>>

\* Mutant of Flush: only the rows the insert added are counted.
FlushCountingInserted(id) ==
    /\ ctl[id].pc = "flush"
    /\ IF "store" \in down \/ bulk_create(transactions, ctl[id].batch_data).raised
       THEN /\ ctl' = [ctl EXCEPT ![id].rows_failed = @ + 1, ![id].next_row = @ + 1,
                                  ![id].bulk_create_calls = @ + 1, ![id].pc = "row"]
            /\ UNCHANGED transactions
       ELSE /\ transactions' = bulk_create(transactions, ctl[id].batch_data).table
            /\ ctl' = [ctl EXCEPT ![id] =
                         LET n == @.rows_processed + Cardinality(transactions')
                                   - Cardinality(transactions)
                         IN  [@ EXCEPT !.rows_processed = n, !.batch_data = <<>>,
                                       !.bulk_create_calls = @ + 1,
                                       !.task.rows_processed = n, !.pc = "progress"]]
    /\ UNCHANGED <<now, down, gw, tasks, staged, merchants, reply, report,
                   query, redis>>

\* Lines 55-60, and 65-67 when bulk_create raises: the inner handler counts
\* the row as failed and goes on with the batch as it is.
Flush(id) ==
    /\ ctl[id].pc = "flush"
    /\ IF "store" \in down \/ bulk_create(transactions, ctl[id].batch_data).raised
       THEN /\ ctl' = [ctl EXCEPT ![id].rows_failed = @ + 1, ![id].next_row = @ + 1,
                                  ![id].bulk_create_calls = @ + 1, ![id].pc = "row"]
            /\ UNCHANGED transactions
       ELSE /\ transactions' = bulk_create(transactions, ctl[id].batch_data).table
            /\ ctl' = [ctl EXCEPT ![id] =
                         LET n == @.rows_processed + Len(@.batch_data)
                         IN  [@ EXCEPT !.rows_processed = n, !.batch_data = <<>>,
                                       !.bulk_create_calls = @ + 1,
                                       !.task.rows_processed = n, !.pc = "progress"]]
    /\ UNCHANGED <<now, down, gw, tasks, staged, merchants, reply, report,
                   query, redis>>

\* Line 61, and 65-67 when task.save() raises.
Progress(id) ==
    /\ ctl[id].pc = "progress"
    /\ IF "store" \in down
       THEN /\ ctl' = [ctl EXCEPT ![id].rows_failed = @ + 1, ![id].next_row = @ + 1,
                                  ![id].pc = "row"]
            /\ UNCHANGED tasks
       ELSE /\ tasks' = [tasks EXCEPT ![id] = ctl[id].task]
            /\ ctl' = [ctl EXCEPT ![id].next_row = @ + 1, ![id].pc = "row"]
    /\ UNCHANGED <<now, down, gw, staged, transactions, merchants, reply, report,
                   query, redis>>

\* Mutant of FinalFlush: the remaining batch is inserted even when empty.
FinalFlushUnconditional(id) ==
    /\ ctl[id].pc = "final"
    /\ IF "store" \in down \/ bulk_create(transactions, ctl[id].batch_data).raised
       THEN /\ ctl' = [ctl EXCEPT ![id] =
                         Raise([@ EXCEPT !.bulk_create_calls = @ + 1], "store error")]
            /\ UNCHANGED transactions
       ELSE /\ transactions' = bulk_create(transactions, ctl[id].batch_data).table
            /\ ctl' = [ctl EXCEPT ![id].rows_processed = @ + Len(ctl[id].batch_data),
                                  ![id].bulk_create_calls = @ + 1,
                                  ![id].pc = "complete"]
    /\ UNCHANGED <<now, down, gw, tasks, staged, merchants, reply, report,
                   query, redis>>

\* Lines 69-72: the remaining batch, outside the inner handler.
FinalFlush(id) ==
    /\ ctl[id].pc = "final"
    /\ IF ctl[id].batch_data = <<>>
       THEN /\ ctl' = [ctl EXCEPT ![id].pc = "complete"]
            /\ UNCHANGED transactions
       ELSE IF "store" \in down \/ bulk_create(transactions, ctl[id].batch_data).raised
       THEN /\ ctl' = [ctl EXCEPT ![id] =
                         Raise([@ EXCEPT !.bulk_create_calls = @ + 1], "store error")]
            /\ UNCHANGED transactions
       ELSE /\ transactions' = bulk_create(transactions, ctl[id].batch_data).table
            /\ ctl' = [ctl EXCEPT ![id].rows_processed = @ + Len(ctl[id].batch_data),
                                  ![id].bulk_create_calls = @ + 1,
                                  ![id].pc = "complete"]
    /\ UNCHANGED <<now, down, gw, tasks, staged, merchants, reply, report,
                   query, redis>>

\* round(n / d, k) on the scaled integers: to the nearest, a tie to even.
RoundHalfEven(n, d) ==
    LET q == n \div d
        r == n % d
    IN  IF 2 * r > d THEN q + 1
        ELSE IF 2 * r < d THEN q
        ELSE IF q % 2 = 0 THEN q ELSE q + 1

\* Mutant of cache_hit_rate: the ratio is computed from the final snapshot
\* alone.
cache_hit_rate_of_final(initial, final, counterDown) ==
    IF initial = NoSnapshot \/ counterDown THEN 0
    ELSE LET total == final.keyspace_hits + final.keyspace_misses
         IN  IF total > 0 THEN RoundHalfEven(100 * final.keyspace_hits, total) ELSE 0

\* Lines 89-99: cache_hit_rate in hundredths, from the snapshot taken at the
\* start (None if it failed) and the one taken now (which raises when the
\* counter service does not answer): round(hits / total, 2) if total > 0.
cache_hit_rate(initial, final, counterDown) ==
    IF initial = NoSnapshot \/ counterDown THEN 0
    ELSE LET hits == final.keyspace_hits - initial.keyspace_hits
             misses == final.keyspace_misses - initial.keyspace_misses
             total == hits + misses
         IN  IF total > 0 THEN RoundHalfEven(100 * hits, total) ELSE 0

\* Lines 74-110: the metrics and the save of the COMPLETED record.
Complete(id) ==
    /\ ctl[id].pc = "complete"
    /\ LET task == [ctl[id].task EXCEPT !.status = "COMPLETED",
                                        !.rows_processed = ctl[id].rows_processed,
                                        !.rows_rejected = ctl[id].rows_failed,
                                        !.metrics = "populated",
                                        !.cache_hit_rate =
                                            cache_hit_rate(ctl[id].initial_redis_stats,
                                                           redis, "counter" \in down),
                                        !.completed_at = now]
       IN  IF "store" \in down
           THEN /\ ctl' = [ctl EXCEPT ![id] = Raise([@ EXCEPT !.task = task], "store error")]
                /\ UNCHANGED tasks
           ELSE /\ tasks' = [tasks EXCEPT ![id] = task]
                /\ ctl' = [ctl EXCEPT ![id].task = task, ![id].pc = "cleanup"]
    /\ UNCHANGED <<now, down, gw, staged, transactions, merchants, reply, report,
                   query, redis>>

\* Lines 112-114: os.remove of the staged file, inside the outer try.
Cleanup(id) ==
    /\ ctl[id].pc = "cleanup"
    /\ IF id \notin staged
       THEN /\ ctl' = [ctl EXCEPT ![id].pc = "done"]
            /\ UNCHANGED staged
       ELSE IF "fs" \in down
       THEN /\ ctl' = [ctl EXCEPT ![id] = Raise(@, "remove error")]
            /\ UNCHANGED staged
       ELSE /\ staged' = staged \ {id}
            /\ ctl' = [ctl EXCEPT ![id].pc = "done"]
    /\ UNCHANGED <<now, down, gw, tasks, transactions, merchants, reply, report,
                   query, redis>>

\* Mutant of Handler: the counters are reset when the run is marked FAILED.
HandlerResettingCounters(id) ==
    /\ ctl[id].pc = "handler"
    /\ tasks' = IF "store" \in down \/ tasks[id] = NoRow THEN tasks
                ELSE [tasks EXCEPT ![id].status = "FAILED",
                                   ![id].rows_processed = 0,
                                   ![id].rows_rejected = 0,
                                   ![id].error_message = ctl[id].error,
                                   ![id].completed_at = now]
    /\ ctl' = [ctl EXCEPT ![id].pc = "done"]
    /\ UNCHANGED <<now, down, gw, staged, transactions, merchants, reply, report,
                   query, redis>>

\* Lines 116-124: the record is fetched again and marked FAILED; a failure
\* of the fetch or of the save is swallowed.
Handler(id) ==
    /\ ctl[id].pc = "handler"
    /\ tasks' = IF "store" \in down \/ tasks[id] = NoRow THEN tasks
                ELSE [tasks EXCEPT ![id].status = "FAILED",
                                   ![id].error_message = ctl[id].error,
                                   ![id].completed_at = now]
    /\ ctl' = [ctl EXCEPT ![id].pc = "done"]
    /\ UNCHANGED <<now, down, gw, staged, transactions, merchants, reply, report,
                   query, redis>>

(***************************************************************************)
(* Environment.                                                            *)
(***************************************************************************)
\* Time passes.
Tick ==
    /\ now < MaxNow
    /\ now' = now + 1
    /\ UNCHANGED <<down, gw, tasks, staged, ctl, transactions, merchants, reply, report,
                   query, redis>>

\* A service becomes unavailable, or available again.  One service is down
\* at a time: the result of every step above depends on one failing service
\* only (Rollback and Row use the file system before the store), so every
\* sequence of step results that several failing services produce is
\* produced with one.
Break(svc) ==
    /\ down = {}
    /\ down' = down \cup {svc}
    /\ UNCHANGED <<now, gw, tasks, staged, ctl, transactions, merchants, reply, report,
                   query, redis>>

Repair(svc) ==
    /\ svc \in down
    /\ down' = down \ {svc}
    /\ UNCHANGED <<now, gw, tasks, staged, ctl, transactions, merchants, reply, report,
                   query, redis>>

\* The staged file of a run is removed from data/temp by something other
\* than the run.
Vanish(id) ==
    /\ id \in staged
    /\ staged' = staged \ {id}
    /\ UNCHANGED <<now, down, gw, tasks, ctl, transactions, merchants, reply, report,
                   query, redis>>

\* Another client of the counter service reads a key that exists, or one
\* that does not.
CacheHit ==
    /\ "counter" \notin down
    /\ redis.keyspace_hits < MaxCounter
    /\ redis' = [redis EXCEPT !.keyspace_hits = @ + 1]
    /\ UNCHANGED <<now, down, gw, tasks, staged, ctl, transactions, merchants, reply,
                   report, query>>

CacheMiss ==
    /\ "counter" \notin down
    /\ redis.keyspace_misses < MaxCounter
    /\ redis' = [redis EXCEPT !.keyspace_misses = @ + 1]
    /\ UNCHANGED <<now, down, gw, tasks, staged, ctl, transactions, merchants, reply,
                   report, query>>

\* The counter service is started again: its statistics begin at zero.
Restart ==
    /\ "counter" \in down
    /\ down' = down \ {"counter"}
    /\ redis' = NoStats
    /\ UNCHANGED <<now, gw, tasks, staged, ctl, transactions, merchants, reply, report,
                   query>>

(***************************************************************************)
(* Inputs: the uploads a request can carry.                                *)
(***************************************************************************)
CsvName == <<"d", ".", "c", "s", "v">>
Phone == <<"+", "1", "5", "5", "5", "1", "0", "0", "0", "0", "0", "1">>
Past == [fmt |-> "iso", at |-> 0, aware |-> TRUE]
\* Not yet past at instant 0.
Later == [fmt |-> "iso", at |-> 1, aware |-> TRUE]

RawRow(transaction_id, merchant_id, category, amount, timestamp) ==
    [TRANSACTION_ID |-> transaction_id, MERCHANT_ID |-> merchant_id, ZONE |-> "north",
     CATEGORY |-> category, AMOUNT |-> amount, TIMESTAMP |-> timestamp,
     CUSTOMER_PHONE |-> Phone]

RowT1 == RawRow("T1", "M1", "grocery", <<"1", "0", "0">>, Past)
RowT2 == RawRow("T2", "M2", "books", <<"2", "5", ".", "5", "0">>, Past)
RowAbc == RawRow("T3", "M1", "grocery", <<"a", "b", "c">>, Past)
\* The identifier of RowT1 with another merchant, amount and instant.
RowT1Later == RawRow("T1", "M2", "books", <<"9", "9">>, Later)

\* Rows of the single-run specification: two accepted rows and a rejected one
\* (a file can repeat a row, and with it an identifier).
Rows == {RowT1, RowT2, RowAbc}
\* Rows of the two-run specification: one identifier with two payloads, the
\* second of which is accepted only from instant 1 on.
PairRows == {RowT1, RowT1Later}

\* The source files of at most n data rows over `rows`.
Files(rows, n) == UNION {[1..k -> rows] : k \in 0..n}

SmallSize == [kib |-> 1, rem |-> 0]

GoodUpload(rows) ==
    [name |-> CsvName, size |-> SmallSize, sample |-> "ok",
     header |-> required_headers, rows |-> rows]

\* Uploads of the run specification: every source file up to MaxRows rows.
RunUploads == {GoodUpload(f) : f \in Files(Rows, MaxRows)}
\* Uploads of the gateway specification: every header row made of a subset
\* of the required headers (in order) alone, or with another column before
\* or after it; NOTE is short, WIDE_NOTE stands for columns 2040 bytes wide
\* together; and files that fail one of the earlier checks.
Subsequence(names) ==
    LET kept(h) == h \in names
    IN  SelectSeq(required_headers, kept)

HeaderRows ==
    LET subs == {Subsequence(names) : names \in SUBSET Range(required_headers)}
    IN  subs
        \cup {h \o <<"NOTE">> : h \in subs} \cup {<<"NOTE">> \o h : h \in subs}
        \cup {h \o <<"amount">> : h \in subs}
        \cup {h \o <<"WIDE_NOTE">> : h \in subs} \cup {<<"WIDE_NOTE">> \o h : h \in subs}

FileNames == {<<>>, CsvName, <<"d", ".", "t", "x", "t">>, <<"d", ".", "C", "S", "V">>, <<"c", "s", "v">>}
FileSizes ==
    {[kib |-> 0, rem |-> 0], [kib |-> 0, rem |-> 1], SmallSize,
     [kib |-> max_size_kib, rem |-> 0], [kib |-> max_size_kib, rem |-> 1],
     [kib |-> max_size_kib + 1, rem |-> 0]}
Samples == {"ok", "unreadable", "blank", "malformed"}

GatewayUploads ==
    {[GoodUpload(<<>>) EXCEPT !.header = h] : h \in HeaderRows}
    \cup {[GoodUpload(<<RowT1, RowT2>>) EXCEPT !.size = z] : z \in FileSizes}
    \cup {[name |-> n, size |-> z, sample |-> k, header |-> h, rows |-> <<>>] :
            n \in FileNames, z \in FileSizes, k \in Samples,
            h \in {required_headers, Tail(required_headers)}}

\* Uploads of the two-run specification.
PairUploads == {GoodUpload(f) : f \in Files(PairRows, MaxPairRows)}

(***************************************************************************)
(* Read endpoints: src/src/apps/analytics/api.py and get_performance_stats. *)
(* An endpoint is one step: it reads the tables and leaves its answer in   *)
(* `reply`.  Amounts are in hundredths, instants are whole hours.          *)
(***************************************************************************)
\* The orders in which a query without ORDER BY, or a sort with equal keys,
\* can return the elements of S: every arrangement.
Arrangements(S) ==
    {f \in [1..Cardinality(S) -> S] : \A i, j \in 1..Cardinality(S) : f[i] = f[j] => i = j}

\* Sum('amount') and Count('id') over a set of rows.
RECURSIVE SumAmount(_)
SumAmount(rows) ==
    IF rows = {} THEN 0
    ELSE LET t == CHOOSE x \in rows : TRUE
         IN  t.amount + SumAmount(rows \ {t})

\* JsonResponse({"success": False, "error": "Query failed"}, status=500)
QueryFailed(op, request) ==
    [op |-> op, request |-> request, status |-> 500, error |-> "Query failed"]

\* Mutant of invalid_pagination: a page size above the ceiling is let through.
invalid_pagination_without_ceiling(page, page_size) == page < 1 \/ page_size < 1

\* Lines 82 and 163.
invalid_pagination(page, page_size) == page < 1 \/ page_size < 1 \/ page_size > 1000

InvalidPagination(op, request) ==
    [op |-> op, request |-> request, status |-> 400,
     error |-> "Invalid pagination parameters"]

\* django.core.paginator.Paginator with allow_empty_first_page: num_pages.
num_pages(count, per_page) ==
    IF count = 0 THEN 1 ELSE (count + per_page - 1) \div per_page

\* Paginator.get_page(number): a number outside 1..num_pages is answered
\* with the last page.
get_page(object_list, per_page, number) ==
    LET last == num_pages(Len(object_list), per_page)
        n == IF number < 1 \/ number > last THEN last ELSE number
        bottom == (n - 1) * per_page
        top == IF bottom + per_page >= Len(object_list) THEN Len(object_list)
               ELSE bottom + per_page
    IN  SubSeq(object_list, bottom + 1, top)

\* Lines 73-112.  The queryset is not ordered: the rows come in any order.
dormant_merchants(page, page_size) ==
    LET request == [page |-> page, page_size |-> page_size]
        active_merchants == {t.merchant_id : t \in transactions}
        dormant == merchants \ active_merchants
    IN  /\ IF invalid_pagination(page, page_size)
           THEN reply' = InvalidPagination("dormant_merchants", request)
           ELSE IF "store" \in down
           THEN reply' = QueryFailed("dormant_merchants", request)
           ELSE \E listed \in Arrangements(dormant) :
                  reply' = [op |-> "dormant_merchants", request |-> request,
                            status |-> 200,
                            data |-> get_page(listed, page_size, page),
                            pagination |->
                              [page |-> page, page_size |-> page_size,
                               total |-> Cardinality(dormant),
                               total_pages |-> num_pages(Cardinality(dormant), page_size)]]
        /\ UNCHANGED <<now, down, gw, tasks, staged, ctl, transactions, merchants, report,
                       query, redis>>

\* Extract('timestamp', 'hour') in the reference zone.
Hour(timestamp) == timestamp % 24

\* Mutant of hourly_pattern: the hours without rows are not filled in.
hourly_pattern_unfilled ==
    /\ IF "store" \in down
       THEN reply' = QueryFailed("hourly_pattern", <<>>)
       ELSE LET in_hour(hour) == {t \in transactions : Hour(t.timestamp) = hour}
                present == SelectSeq([i \in 1..24 |-> i - 1],
                                     LAMBDA hour : in_hour(hour) # {})
            IN  reply' = [op |-> "hourly_pattern", request |-> <<>>, status |-> 200,
                          data |-> [i \in DOMAIN present |->
                                      [hour |-> present[i],
                                       transaction_count |-> Cardinality(in_hour(present[i])),
                                       average_amount |->
                                         RoundHalfEven(SumAmount(in_hour(present[i])),
                                                       Cardinality(in_hour(present[i])))]]]
    /\ UNCHANGED <<now, down, gw, tasks, staged, ctl, transactions, merchants, report,
                   query, redis>>

\* Lines 114-152: one entry per hour of range(24), from the grouped rows
\* when the hour has some and zeros when it has none.
hourly_pattern ==
    /\ IF "store" \in down
       THEN reply' = QueryFailed("hourly_pattern", <<>>)
       ELSE LET in_hour(hour) == {t \in transactions : Hour(t.timestamp) = hour}
                hours_dict == {Hour(t.timestamp) : t \in transactions}
                entry(hour) ==
                    IF hour \in hours_dict
                    THEN [hour |-> hour,
                          transaction_count |-> Cardinality(in_hour(hour)),
                          average_amount |->
                            RoundHalfEven(SumAmount(in_hour(hour)),
                                          Cardinality(in_hour(hour)))]
                    ELSE [hour |-> hour, transaction_count |-> 0, average_amount |-> 0]
            IN  reply' = [op |-> "hourly_pattern", request |-> <<>>, status |-> 200,
                          data |-> [i \in 1..24 |-> entry(i - 1)]]
    /\ UNCHANGED <<now, down, gw, tasks, staged, ctl, transactions, merchants, report,
                   query, redis>>

\* Lines 12-40: the zones in descending order of Sum('amount') (equal sums
\* in any order), cut after twenty; Avg('amount') is kept as sum and count.
zone_leaderboard ==
    /\ IF "store" \in down
       THEN reply' = QueryFailed("zone_leaderboard", <<>>)
       ELSE LET rows(z) == {t \in transactions : t.zone = z}
                total_amount(z) == SumAmount(rows(z))
            IN  \E zones \in Arrangements({t.zone : t \in transactions}) :
                  /\ \A i, j \in DOMAIN zones :
                       i < j => total_amount(zones[i]) >= total_amount(zones[j])
                  /\ reply' =
                       [op |-> "zone_leaderboard", request |-> <<>>, status |-> 200,
                        data |-> [idx \in 1..Min(Len(zones), 20) |->
                                    [rank |-> idx, zone |-> zones[idx],
                                     total_amount |-> total_amount(zones[idx]),
                                     transaction_count |-> Cardinality(rows(zones[idx])),
                                     average_amount |->
                                       [sum |-> total_amount(zones[idx]),
                                        count |-> Cardinality(rows(zones[idx]))]]]]
    /\ UNCHANGED <<now, down, gw, tasks, staged, ctl, transactions, merchants, report,
                   query, redis>>

\* Mutant of percentage: the quotient is cut, not rounded.
percentage_truncated(transaction_count, total_transactions) ==
    (transaction_count * 1000) \div total_transactions

\* round((transaction_count / total_transactions) * 100, 1), in tenths.
percentage(transaction_count, total_transactions) ==
    RoundHalfEven(transaction_count * 1000, total_transactions)

\* Lines 42-71: Transaction.objects.count(), then the rows grouped by
\* category in descending order of their count (equal counts in any order);
\* one step, for tables that no run writes between the two queries.
category_distribution ==
    /\ IF "store" \in down
       THEN reply' = QueryFailed("category_distribution", <<>>)
       ELSE LET total_transactions == Cardinality(transactions)
                of_category(c) == {t \in transactions : t.category = c}
                count(c) == Cardinality(of_category(c))
            IN  IF total_transactions = 0
                THEN reply' = [op |-> "category_distribution", request |-> <<>>,
                               status |-> 200, data |-> <<>>, total_transactions |-> 0]
                ELSE \E categories \in Arrangements({t.category : t \in transactions}) :
                       /\ \A i, j \in DOMAIN categories :
                            i < j => count(categories[i]) >= count(categories[j])
                       /\ reply' =
                            [op |-> "category_distribution", request |-> <<>>,
                             status |-> 200,
                             data |-> [i \in DOMAIN categories |->
                                         [category |-> categories[i],
                                          percentage |-> percentage(count(categories[i]),
                                                                    total_transactions),
                                          transaction_count |-> count(categories[i])]],
                             total_transactions |-> total_transactions]
    /\ UNCHANGED <<now, down, gw, tasks, staged, ctl, transactions, merchants, report,
                   query, redis>>

\* Lines 167-170: per category, Avg('amount') and StdDev('amount') (the
\* population deviation, sample=False), kept exactly as the count n, the
\* sum and the sum of squares: mean = sum / n and
\* std_dev = sqrt(n * sumsq - sum^2) / n.
category_stats(table) ==
    {LET rows == {t \in table : t.category = c}
     IN  [category |-> c, n |-> Cardinality(rows), sum |-> SumAmount(rows),
          sumsq |-> SumAmount({[id |-> t.id, amount |-> t.amount * t.amount] : t \in rows})] :
       c \in {t.category : t \in table}}

\* Line 174: stat['category_std_dev'] and stat['category_std_dev'] > 0.
std_dev_positive(stat) == stat.n * stat.sumsq - stat.sum * stat.sum > 0

\* Mutant of above_threshold: an amount at the threshold is flagged too.
at_or_above_threshold(amount, stat) ==
    LET d == stat.n * amount - stat.sum
    IN  d > 0 /\ d * d >= 9 * (stat.n * stat.sumsq - stat.sum * stat.sum)

\* Lines 175-178: amount > category_mean + 3 * category_std_dev, that is
\* n * amount - sum > 3 * sqrt(n * sumsq - sum^2), compared exactly.
above_threshold(amount, stat) ==
    LET d == stat.n * amount - stat.sum
    IN  d > 0 /\ d * d > 9 * (stat.n * stat.sumsq - stat.sum * stat.sum)

\* Mutant of anomalies: the flagged rows are paginated as the queries
\* returned them, without the sort.
anomalies_unsorted(page, page_size) ==
    LET request == [page |-> page, page_size |-> page_size]
        category_anomalies(stat) ==
            {t \in transactions :
               t.category = stat.category /\ above_threshold(t.amount, stat)}
        flagged ==
            UNION {category_anomalies(stat) :
                     stat \in {x \in category_stats(transactions) : std_dev_positive(x)}}
        item(t) == [transaction_id |-> t.transaction_id, amount |-> t.amount,
                    category |-> t.category]
    IN  /\ IF invalid_pagination(page, page_size)
           THEN reply' = InvalidPagination("anomalies", request)
           ELSE IF "store" \in down
           THEN reply' = QueryFailed("anomalies", request)
           ELSE \E sorted \in Arrangements(flagged) :
                  /\ reply' = [op |-> "anomalies", request |-> request, status |-> 200,
                               data |-> get_page([i \in DOMAIN sorted |-> item(sorted[i])],
                                                 page_size, page),
                               pagination |->
                                 [page |-> page, page_size |-> page_size,
                                  total |-> Cardinality(flagged),
                                  total_pages |-> num_pages(Cardinality(flagged), page_size)]]
        /\ UNCHANGED <<now, down, gw, tasks, staged, ctl, transactions, merchants, report,
                       query, redis>>

\* Lines 154-211.  An item of the answer is kept as its transaction_id,
\* amount and category (its rounded statistics are not modelled).  The
\* flagged rows are sorted by amount, descending; rows of equal amount come
\* in the order the queries returned them, which is any order.
anomalies(page, page_size) ==
    LET request == [page |-> page, page_size |-> page_size]
        category_anomalies(stat) ==
            {t \in transactions :
               t.category = stat.category /\ above_threshold(t.amount, stat)}
        flagged ==
            UNION {category_anomalies(stat) :
                     stat \in {x \in category_stats(transactions) : std_dev_positive(x)}}
        item(t) == [transaction_id |-> t.transaction_id, amount |-> t.amount,
                    category |-> t.category]
    IN  /\ IF invalid_pagination(page, page_size)
           THEN reply' = InvalidPagination("anomalies", request)
           ELSE IF "store" \in down
           THEN reply' = QueryFailed("anomalies", request)
           ELSE \E sorted \in Arrangements(flagged) :
                  /\ \A i, j \in DOMAIN sorted :
                       i < j => sorted[i].amount >= sorted[j].amount
                  /\ reply' = [op |-> "anomalies", request |-> request, status |-> 200,
                               data |-> get_page([i \in DOMAIN sorted |-> item(sorted[i])],
                                                 page_size, page),
                               pagination |->
                                 [page |-> page, page_size |-> page_size,
                                  total |-> Cardinality(flagged),
                                  total_pages |-> num_pages(Cardinality(flagged), page_size)]]
        /\ UNCHANGED <<now, down, gw, tasks, staged, ctl, transactions, merchants, report,
                       query, redis>>

\* A task_id of the URL is [run, form]: the run it names and the notation,
\* one uuid.UUID parses ("canonical", "urn") or not ("malformed").
uuid_parses(task_id) == task_id.form \in {"canonical", "urn"}

NotFound(task_id, error) ==
    [op |-> "get_performance_stats", request |-> task_id, status |-> 404, error |-> error]

\* Mutant of performance_stats: the record is read before the identifier
\* is parsed.
performance_stats_reading_first(task_id, table, storeDown) ==
    IF storeDown
    THEN [op |-> "get_performance_stats", request |-> task_id, status |-> 500,
          error |-> "Failed to get stats"]
    ELSE IF ~uuid_parses(task_id) THEN NotFound(task_id, "Invalid task ID format")
    ELSE IF task_id.run \notin DOMAIN table \/ table[task_id.run] = NoRow
    THEN NotFound(task_id, "Task not found")
    ELSE [op |-> "get_performance_stats", request |-> task_id, status |-> 200,
          task_id |-> task_id.run, task_status |-> table[task_id.run].status,
          rows_processed |-> table[task_id.run].rows_processed,
          rows_rejected |-> table[task_id.run].rows_rejected,
          metrics |-> table[task_id.run].metrics]

\* uploads/api.py lines 148-178: the answer of get_performance_stats.
performance_stats(task_id, table, storeDown) ==
    IF ~uuid_parses(task_id) THEN NotFound(task_id, "Invalid task ID format")
    ELSE IF storeDown
    THEN [op |-> "get_performance_stats", request |-> task_id, status |-> 500,
          error |-> "Failed to get stats"]
    ELSE IF task_id.run \notin DOMAIN table \/ table[task_id.run] = NoRow
    THEN NotFound(task_id, "Task not found")
    ELSE [op |-> "get_performance_stats", request |-> task_id, status |-> 200,
          task_id |-> task_id.run, task_status |-> table[task_id.run].status,
          rows_processed |-> table[task_id.run].rows_processed,
          rows_rejected |-> table[task_id.run].rows_rejected,
          metrics |-> table[task_id.run].metrics]

get_performance_stats(task_id) ==
    /\ reply' = performance_stats(task_id, tasks, "store" \in down)
    /\ UNCHANGED <<now, down, gw, tasks, staged, ctl, transactions, merchants, report,
                   query, redis>>

\* Mutant of get_customer_retention: a customer with a single transaction
\* is counted as a repeat customer.
get_customer_retention_counting_all(table) ==
    LET phones == {t.customer_phone : t \in table}
        count(phone) == Cardinality({t \in table : t.customer_phone = phone})
        total_customers == Cardinality(phones)
        repeat_customers == Cardinality({phone \in phones : count(phone) >= 1})
    IN  [total_unique_customers |-> total_customers,
         repeat_customers |-> repeat_customers,
         repeat_customer_percentage |->
           IF total_customers > 0
           THEN RoundHalfEven(repeat_customers * 10000, total_customers) ELSE 0,
         single_transaction_customers |-> total_customers - repeat_customers,
         average_transactions_per_customer |->
           IF total_customers > 0
           THEN RoundHalfEven(Cardinality(table) * 100, total_customers) ELSE 0]

\* Lines 220-230 and 237 (and 285-300): the rows grouped by customer_phone,
\* the number of groups, the number of groups of more than one row, and the
\* two ratios rounded to two decimals (kept in hundredths), 0 without groups.
get_customer_retention(table) ==
    LET phones == {t.customer_phone : t \in table}
        count(phone) == Cardinality({t \in table : t.customer_phone = phone})
        total_customers == Cardinality(phones)
        repeat_customers == Cardinality({phone \in phones : count(phone) > 1})
    IN  [total_unique_customers |-> total_customers,
         repeat_customers |-> repeat_customers,
         repeat_customer_percentage |->
           IF total_customers > 0
           THEN RoundHalfEven(repeat_customers * 10000, total_customers) ELSE 0,
         single_transaction_customers |-> total_customers - repeat_customers,
         average_transactions_per_customer |->
           IF total_customers > 0
           THEN RoundHalfEven(Cardinality(table) * 100, total_customers) ELSE 0]

\* Lines 213-243; one step, for tables that no run writes between the
\* queries.
customer_retention ==
    /\ reply' = IF "store" \in down THEN QueryFailed("customer_retention", <<>>)
                ELSE [op |-> "customer_retention", request |-> <<>>, status |-> 200]
                     @@ get_customer_retention(transactions)
    /\ UNCHANGED <<now, down, gw, tasks, staged, ctl, transactions, merchants, report,
                   query, redis>>

(***************************************************************************)
(* The combined report: full_report, analytics/api.py lines 245-347.       *)
(***************************************************************************)
\* Lines 257-269: the zones by descending total amount (equal totals in any
\* order), the first twenty of them; an average is kept as sum and count.
get_zone_leaderboard(table) ==
    LET of_zone(z) == {t \in table : t.zone = z}
        entry(z, idx) ==
            [rank |-> idx, zone |-> z, total_amount |-> SumAmount(of_zone(z)),
             transaction_count |-> Cardinality(of_zone(z)),
             average_amount |-> [sum |-> SumAmount(of_zone(z)),
                                 count |-> Cardinality(of_zone(z))]]
    IN  {[idx \in 1..(IF Len(zones) > 20 THEN 20 ELSE Len(zones)) |-> entry(zones[idx], idx)] :
           zones \in {o \in Arrangements({t.zone : t \in table}) :
                        \A i, j \in DOMAIN o :
                          i < j => SumAmount(of_zone(o[i])) >= SumAmount(of_zone(o[j]))}}

\* Lines 271-282: the answers get_category_distribution can give.
get_category_distribution(table) ==
    LET total_transactions == Cardinality(table)
        count(c) == Cardinality({t \in table : t.category = c})
    IN  IF total_transactions = 0 THEN {<<>>}
        ELSE {[i \in DOMAIN categories |->
                 [category |-> categories[i],
                  percentage |-> percentage(count(categories[i]), total_transactions),
                  transaction_count |-> count(categories[i])]] :
                categories \in {o \in Arrangements({t.category : t \in table}) :
                                  \A i, j \in DOMAIN o : i < j => count(o[i]) >= count(o[j])}}

\* Mutant of get_counts: a row at the threshold of its category is counted
\* as an anomaly.
get_counts_at_threshold(table, ms) ==
    LET flagged ==
            {t \in table :
               \E stat \in category_stats(table) :
                 /\ stat.category = t.category
                 /\ std_dev_positive(stat)
                 /\ at_or_above_threshold(t.amount, stat)}
    IN  [dormant_count |-> Cardinality(ms \ {t.merchant_id : t \in table}),
         anomalies_count |-> Cardinality(flagged)]

\* Lines 302-321: the number of merchants no transaction names, and the
\* number of rows above the threshold of their category.
get_counts(table, ms) ==
    LET flagged ==
            {t \in table :
               \E stat \in category_stats(table) :
                 /\ stat.category = t.category
                 /\ std_dev_positive(stat)
                 /\ above_threshold(t.amount, stat)}
    IN  [dormant_count |-> Cardinality(ms \ {t.merchant_id : t \in table}),
         anomalies_count |-> Cardinality(flagged)]

\* The four functions handed to the executor, in the order of lines 325-328
\* and of the result() calls of lines 330-333.
Units == <<"zone", "category", "retention", "counts">>

\* What a unit can return when it reads the tables now.
UnitResults(u) ==
    CASE u = "zone" -> get_zone_leaderboard(transactions)
      [] u = "category" -> get_category_distribution(transactions)
      [] u = "retention" -> {get_customer_retention(transactions)}
      [] u = "counts" -> {get_counts(transactions, merchants)}

Finished(future) == future.state \in {"done", "raised"}

\* Lines 251-328: the four futures are submitted to a pool of four workers.
full_report ==
    /\ report.pc = "idle"
    /\ report' = [pc |-> "join", start_time |-> now, awaited |-> 1, raised |-> FALSE,
                  futures |-> [u \in Range(Units) |-> [state |-> "pending"]]]
    /\ UNCHANGED <<now, down, gw, tasks, staged, ctl, transactions, merchants, reply,
                   query, redis>>

\* A worker thread takes a submitted function.
StartUnit(u) ==
    /\ report.pc \in {"join", "exit"}
    /\ report.futures[u].state = "pending"
    /\ report' = [report EXCEPT !.futures[u] = [state |-> "running"]]
    /\ UNCHANGED <<now, down, gw, tasks, staged, ctl, transactions, merchants, reply,
                   query, redis>>

\* The function returns or raises; the future keeps the result or the
\* exception.
FinishUnit(u) ==
    /\ report.pc \in {"join", "exit"}
    /\ report.futures[u].state = "running"
    /\ IF "store" \in down
       THEN report' = [report EXCEPT !.futures[u] = [state |-> "raised"]]
       ELSE \E result \in UnitResults(u) :
              report' = [report EXCEPT !.futures[u] = [state |-> "done", result |-> result]]
    /\ UNCHANGED <<now, down, gw, tasks, staged, ctl, transactions, merchants, reply,
                   query, redis>>

\* Lines 330-333: future.result() blocks until the future is finished, and
\* raises what the function raised.
FutureResult ==
    /\ report.pc = "join"
    /\ LET future == report.futures[Units[report.awaited]]
       IN  /\ Finished(future)
           /\ report' = IF future.state = "raised"
                        THEN [report EXCEPT !.pc = "exit", !.raised = TRUE]
                        ELSE IF report.awaited = Len(Units)
                        THEN [report EXCEPT !.pc = "exit"]
                        ELSE [report EXCEPT !.awaited = @ + 1]
    /\ UNCHANGED <<now, down, gw, tasks, staged, ctl, transactions, merchants, reply,
                   query, redis>>

\* Mutant of report_response: the sections of the units that returned are
\* sent although another unit raised.
report_response_partial(r, t) ==
    LET section(u, empty) ==
            IF r.futures[u].state = "done" THEN r.futures[u].result ELSE empty
    IN  [op |-> "full_report", request |-> <<>>, status |-> 200,
         zone_leaderboard |-> section("zone", <<>>),
         category_distribution |-> section("category", <<>>),
         dormant_merchants_count |->
           section("counts", [dormant_count |-> 0, anomalies_count |-> 0]).dormant_count,
         hourly_pattern |-> <<>>,
         anomalies_count |->
           section("counts", [dormant_count |-> 0, anomalies_count |-> 0]).anomalies_count,
         customer_retention |-> section("retention", <<>>),
         total_query_time_ms |-> t - r.start_time]

\* Lines 335-347: the assembled answer at instant t, or the generic error
\* when a result() call raised.
report_response(r, t) ==
    IF r.raised THEN QueryFailed("full_report", <<>>)
    ELSE [op |-> "full_report", request |-> <<>>, status |-> 200,
          zone_leaderboard |-> r.futures["zone"].result,
          category_distribution |-> r.futures["category"].result,
          dormant_merchants_count |-> r.futures["counts"].result.dormant_count,
          hourly_pattern |-> <<>>,
          anomalies_count |-> r.futures["counts"].result.anomalies_count,
          customer_retention |-> r.futures["retention"].result,
          total_query_time_ms |-> t - r.start_time]

\* Line 324: leaving the `with` block, normally or with an exception, is
\* executor.shutdown(wait=True), which returns once every submitted function
\* has finished; then lines 335-347 answer.
ExecutorExit ==
    /\ report.pc = "exit"
    /\ \A u \in Range(Units) : Finished(report.futures[u])
    /\ report' = [report EXCEPT !.pc = "done"]
    /\ reply' = report_response(report, now)
    /\ UNCHANGED <<now, down, gw, tasks, staged, ctl, transactions, merchants,
                   query, redis>>

(***************************************************************************)
(* Read requests beside a run that inserts: every query of a request is a  *)
(* step of its own, and reads the tables as they are at that step.  The    *)
(* locals of the request between two queries are in `query`.               *)
(***************************************************************************)
\* analytics/api.py lines 48-50: total_transactions = Transaction.objects
\* .count(), and the answer over an empty table.
count_transactions ==
    /\ query = NoQuery
    /\ IF Cardinality(transactions) = 0
       THEN /\ reply' = [op |-> "category_distribution", request |-> <<>>,
                         status |-> 200, data |-> <<>>, total_transactions |-> 0]
            /\ UNCHANGED query
       ELSE /\ query' = [pc |-> "categories",
                         total_transactions |-> Cardinality(transactions)]
            /\ UNCHANGED reply
    /\ UNCHANGED <<now, down, gw, tasks, staged, ctl, transactions, merchants, report,
                   redis>>

\* Lines 52-68: the rows grouped by category, read when the response is
\* built, and the percentages over the total read before.
group_categories ==
    /\ query.pc = "categories"
    /\ LET count(c) == Cardinality({t \in transactions : t.category = c})
       IN  \E categories \in Arrangements({t.category : t \in transactions}) :
             /\ \A i, j \in DOMAIN categories :
                  i < j => count(categories[i]) >= count(categories[j])
             /\ reply' =
                  [op |-> "category_distribution", request |-> <<>>, status |-> 200,
                   data |-> [i \in DOMAIN categories |->
                               [category |-> categories[i],
                                percentage |-> percentage(count(categories[i]),
                                                          query.total_transactions),
                                transaction_count |-> count(categories[i])]],
                   total_transactions |-> query.total_transactions]
    /\ query' = NoQuery
    /\ UNCHANGED <<now, down, gw, tasks, staged, ctl, transactions, merchants, report,
                   redis>>

\* Line 224: total_customers = customer_counts.count().
count_customers ==
    /\ query = NoQuery
    /\ query' = [pc |-> "repeat",
                 total_customers |-> Cardinality({t.customer_phone : t \in transactions})]
    /\ UNCHANGED <<now, down, gw, tasks, staged, ctl, transactions, merchants, reply,
                   report, redis>>

\* Lines 225-226: repeat_customers = customer_counts.filter(
\* transaction_count__gt=1).count().
count_repeat_customers ==
    /\ query.pc = "repeat"
    /\ LET count(phone) == Cardinality({t \in transactions : t.customer_phone = phone})
       IN  query' = [query EXCEPT !.pc = "transactions"]
                    @@ [repeat_customers |->
                          Cardinality({phone \in {t.customer_phone : t \in transactions} :
                                         count(phone) > 1})]
    /\ UNCHANGED <<now, down, gw, tasks, staged, ctl, transactions, merchants, reply,
                   report, redis>>

\* Lines 229-241: total_transactions = Transaction.objects.count() and the
\* response.
count_all_and_answer ==
    /\ query.pc = "transactions"
    /\ reply' =
         [op |-> "customer_retention", request |-> <<>>, status |-> 200,
          total_unique_customers |-> query.total_customers,
          repeat_customers |-> query.repeat_customers,
          repeat_customer_percentage |->
            IF query.total_customers > 0
            THEN RoundHalfEven(query.repeat_customers * 10000, query.total_customers)
            ELSE 0,
          single_transaction_customers |-> query.total_customers - query.repeat_customers,
          average_transactions_per_customer |->
            IF query.total_customers > 0
            THEN RoundHalfEven(Cardinality(transactions) * 100, query.total_customers)
            ELSE 0]
    /\ query' = NoQuery
    /\ UNCHANGED <<now, down, gw, tasks, staged, ctl, transactions, merchants, report,
                   redis>>

(***************************************************************************)
(* Specifications.                                                         *)
(***************************************************************************)
Init ==
    /\ now = 0
    /\ down = {}
    /\ gw = [id \in TaskIds |-> [pc |-> "idle", file |-> NoUpload, response |-> NoResponse]]
    /\ tasks = [id \in TaskIds |-> NoRow]
    /\ staged = {}
    /\ ctl = [id \in TaskIds |-> IdleRun]
    /\ transactions = {}
    /\ merchants = {}
    /\ reply = NoReply
    /\ report = NoReport
    /\ query = NoQuery
    /\ redis = NoStats

\* The steps of the requests and runs `ids` that need no failing service,
\* with uploads drawn from `uploads`.
StepsOf(ids, uploads) ==
    \/ \E id \in ids, file \in uploads : Submit(id, file)
    \/ \E id \in ids : CreateTask(id)
    \/ \E id \in ids : StageFile(id)
    \/ \E id \in ids : Dispatch(id)
    \/ \E id \in ids : Respond(id)
    \/ \E id \in ids : Begin(id)
    \/ \E id \in ids : Open(id)
    \/ \E id \in ids : Row(id)
    \/ \E id \in ids : Flush(id)
    \/ \E id \in ids : Progress(id)
    \/ \E id \in ids : FinalFlush(id)
    \/ \E id \in ids : Complete(id)
    \/ \E id \in ids : Cleanup(id)
    \/ Tick

\* The steps that only a failing service enables, and the failures.
FailureStepsOf(ids) ==
    \/ \E id \in ids : Fallback(id)
    \/ \E id \in ids : Rollback(id)
    \/ \E id \in ids : Handler(id)
    \/ \E svc \in Services : Break(svc)
    \/ \E svc \in Services : Repair(svc)

\* One request and its run, over every source file.
Next == StepsOf({"u1"}, RunUploads) \/ FailureStepsOf({"u1"})
Spec == Init /\ [][Next]_vars

\* One request with every kind of upload, and its run.
NextGateway == StepsOf({"u1"}, GatewayUploads) \/ FailureStepsOf({"u1"})
SpecGateway == Init /\ [][NextGateway]_vars

\* Two requests and their runs, interleaved, while no service fails.
NextPair == StepsOf(TaskIds, PairUploads)
SpecPair == Init /\ [][NextPair]_vars

\* One request and its run, whose staged file can disappear at any moment.
NextMissing ==
    \/ StepsOf({"u1"}, RunUploads)
    \/ Vanish("u1")
    \/ Handler("u1")
SpecMissing == Init /\ [][NextMissing]_vars

\* One request and its run over a file of three rows or of none, beside the
\* other clients of the counter service and its outages.
CounterUploads == {GoodUpload(<<RowT1, RowAbc, RowT2>>), GoodUpload(<<>>)}
NextCounter ==
    \/ StepsOf({"u1"}, CounterUploads)
    \/ CacheHit
    \/ CacheMiss
    \/ Break("counter")
    \/ Restart
SpecCounter == Init /\ [][NextCounter]_vars

(***************************************************************************)
(* The read endpoints over stored data.                                    *)
(***************************************************************************)
\* A row as the validator returns it.
Stored(transaction_id, merchant_id, category, amount, timestamp) ==
    [transaction_id |-> transaction_id, merchant_id |-> merchant_id, zone |-> "NORTH",
     category |-> category, amount |-> amount, timestamp |-> timestamp,
     customer_phone |-> Phone]

\* The table after the rows of `batch` were inserted in order.
StoreOf(batch) ==
    InsertIgnore({}, [i \in DOMAIN batch |-> Transaction(batch[i])])

TxnNames ==
    <<"T1", "T2", "T3", "T4", "T5", "T6", "T7", "T8", "T9", "T10", "T11",
      "T12", "T13", "T14", "T15", "T16", "T17", "T18", "T19", "T20", "T21",
      "T22", "T23", "T24", "T25", "T26", "T27", "T28", "T29", "T30", "T31",
      "T32", "T33">>

\* k rows of one category and amount, named from TxnNames[from] on.
Same(from, k, category, amount) ==
    [i \in 1..k |-> Stored(TxnNames[from + i - 1], "M1", category, amount, 0)]

\* Rows in four hours of two days and three categories.
SparseRows ==
    <<Stored("T1", "M1", "Grocery", 100, 0), Stored("T2", "M2", "Books", 2550, 5),
      Stored("T3", "M1", "Grocery", 300, 29), Stored("T4", "M2", "Fashion", 999, 23),
      Stored("T5", "M1", "Grocery", 450, 5), Stored("T6", "M1", "Books", 50, 47)>>
\* Grocery holds nine rows of 1.00 and one of 10.00, which is its mean plus
\* three deviations exactly; Books holds two rows.
AtThresholdRows ==
    Same(1, 9, "Grocery", 100) \o <<Stored("T10", "M2", "Grocery", 1000, 5)>>
    \o <<Stored("T11", "M2", "Books", 100, 5), Stored("T12", "M2", "Books", 900, 5)>>
\* Grocery holds ten rows of 1.00 and one of 10.00, which lies above its
\* threshold; Books holds three rows of 10.00 and Fashion one.
AboveThresholdRows ==
    Same(1, 10, "Grocery", 100) \o <<Stored("T11", "M2", "Grocery", 1000, 5)>>
    \o Same(12, 3, "Books", 1000) \o <<Stored("T15", "M3", "Fashion", 1000, 23)>>
\* Grocery holds one row above its threshold; Books holds a row of the same
\* amount, which its own threshold does not flag.
TwoAnomaliesRows ==
    Same(1, 10, "Grocery", 100) \o <<Stored("T11", "M2", "Grocery", 1000, 5)>>
    \o <<Stored("T12", "M2", "Books", 1000, 6)>>
    \o [i \in 1..3 |-> Stored(TxnNames[12 + i], "M3", "Books", 10, 7)]

\* Rows of four customers in two zones: two customers with two rows each
\* (one of them the INVALID sentinel), two with one row (one of them blank).
OtherPhone == <<"+", "1", "5", "5", "5", "1", "0", "0", "0", "0", "0", "2">>
CustomerRows ==
    <<Stored("T1", "M1", "Grocery", 100, 0),
      [Stored("T2", "M2", "Books", 2550, 5) EXCEPT !.zone = "SOUTH"],
      [Stored("T3", "M1", "Grocery", 300, 29) EXCEPT !.customer_phone = OtherPhone],
      [Stored("T4", "M2", "Fashion", 999, 23) EXCEPT !.customer_phone = INVALID],
      [Stored("T5", "M1", "Grocery", 450, 5) EXCEPT !.customer_phone = INVALID,
                                                    !.zone = "SOUTH"],
      [Stored("T6", "M1", "Books", 50, 47) EXCEPT !.customer_phone = <<>>]>>

\* Three flagged rows of different amounts in two categories: 10.00 in
\* Grocery, 0.90 and 0.85 among twenty rows of 0.00 in Books (0.85 lies
\* above the mean plus three population deviations of Books, and below the
\* mean plus three sample deviations).
ManyAnomaliesRows ==
    Same(1, 10, "Grocery", 100) \o <<Stored("T11", "M2", "Grocery", 1000, 5)>>
    \o Same(12, 20, "Books", 0)
    \o <<Stored("T32", "M2", "Books", 90, 6), Stored("T33", "M2", "Books", 85, 7)>>

\* The contents of the tables the queries are asked over: transactions,
\* and merchants, some of which are named by no transaction.
Worlds ==
    {[transactions |-> StoreOf(batch), merchants |-> ms] :
       batch \in {<<>>, SubSeq(SparseRows, 1, 1), SubSeq(SparseRows, 1, 3), SparseRows,
                  CustomerRows, SubSeq(CustomerRows, 3, 6), AtThresholdRows, AboveThresholdRows, TwoAnomaliesRows,
                  ManyAnomaliesRows},
       ms \in {{"M1", "M2", "M3"}, {"M1", "M2", "M3", "M7"}}}
    \cup {[transactions |-> {}, merchants |-> {}]}

\* A run record after its run has completed.
CompletedTask ==
    [NewUploadTask(0) EXCEPT !.status = "COMPLETED", !.rows_processed = 2,
                             !.rows_rejected = 1, !.metrics = "populated",
                             !.cache_hit_rate = 0, !.completed_at = 0]

TaskTables ==
    {[id \in TaskIds |-> NoRow],
     [id \in TaskIds |-> IF id = "u1" THEN NewUploadTask(0) ELSE NoRow],
     [id \in TaskIds |-> IF id = "u1" THEN CompletedTask ELSE NewUploadTask(0)]}

PageNumbers == {0, 1, 2, 3}
PageSizes == {0, 1, 2, 1000, 1001, 2000}
\* Identifiers of the URL: of the runs, of no run, and malformed ones.
UrlTaskIds ==
    {[run |-> r, form |-> f] : r \in TaskIds \cup {"u9"}, f \in {"canonical", "urn", "malformed"}}

\* Requests finished long ago left their rows in the tables; no request and
\* no run is in flight.
InitQueries ==
    /\ now = 47
    /\ down = {}
    /\ gw = [id \in TaskIds |-> [pc |-> "idle", file |-> NoUpload, response |-> NoResponse]]
    /\ staged = {}
    /\ ctl = [id \in TaskIds |-> IdleRun]
    /\ reply = NoReply
    /\ report = NoReport
    /\ query = NoQuery
    /\ redis = NoStats
    /\ tasks \in TaskTables
    /\ \E w \in Worlds : transactions = w.transactions /\ merchants = w.merchants

NextQueries ==
    \/ \E page \in PageNumbers, page_size \in PageSizes : dormant_merchants(page, page_size)
    \/ \E page \in PageNumbers, page_size \in PageSizes : anomalies(page, page_size)
    \/ hourly_pattern
    \/ category_distribution
    \/ customer_retention
    \/ \E task_id \in UrlTaskIds : get_performance_stats(task_id)
    \/ Break("store")
    \/ Repair("store")
SpecQueries == InitQueries /\ [][NextQueries]_vars

\* One combined report over the same tables, while the store fails and
\* recovers.
NextReport ==
    \/ full_report
    \/ \E u \in Range(Units) : StartUnit(u)
    \/ \E u \in Range(Units) : FinishUnit(u)
    \/ FutureResult
    \/ ExecutorExit
    \/ Break("store")
    \/ Repair("store")
SpecReport == InitQueries /\ [][NextReport]_vars

\* One combined report over the same tables while no service fails, and
\* after it the standalone endpoints.
AfterReport(endpoint) == report.pc = "done" /\ endpoint
NextAgree ==
    \/ full_report
    \/ \E u \in Range(Units) : StartUnit(u)
    \/ \E u \in Range(Units) : FinishUnit(u)
    \/ FutureResult
    \/ ExecutorExit
    \/ AfterReport(zone_leaderboard)
    \/ AfterReport(category_distribution)
    \/ AfterReport(customer_retention)
    \/ \E page \in PageNumbers, page_size \in PageSizes :
          AfterReport(anomalies(page, page_size))
    \/ \E page \in PageNumbers, page_size \in PageSizes :
          AfterReport(dormant_merchants(page, page_size))
SpecAgree == InitQueries /\ [][NextAgree]_vars

(***************************************************************************)
(* A run over tables that an earlier run has filled.                       *)
(***************************************************************************)
\* The tables before the request hold a transaction T1 of merchant M9 that
\* an earlier run stored.
PriorRow == Stored("T1", "M9", "Grocery", 700, 0)
InitStocked ==
    /\ now = 0
    /\ down = {}
    /\ gw = [id \in TaskIds |-> [pc |-> "idle", file |-> NoUpload, response |-> NoResponse]]
    /\ tasks = [id \in TaskIds |-> NoRow]
    /\ staged = {}
    /\ ctl = [id \in TaskIds |-> IdleRun]
    /\ reply = NoReply
    /\ report = NoReport
    /\ query = NoQuery
    /\ redis = NoStats
    /\ transactions = StoreOf(<<PriorRow>>)
    /\ merchants = {"M9"}

\* One request and its run over such tables, with failing services.
SpecStocked == InitStocked /\ [][Next]_vars

\* One request and its run over such tables, while no service fails.
\* One request and its run, while no service fails, beside the read requests
\* of category_distribution and customer_retention, over tables that are
\* empty or hold one transaction of an earlier run.
EarlierRow == Stored("T9", "M9", "Books", 700, 0)
InitConcurrent ==
    /\ now = 0
    /\ down = {}
    /\ gw = [id \in TaskIds |-> [pc |-> "idle", file |-> NoUpload, response |-> NoResponse]]
    /\ tasks = [id \in TaskIds |-> NoRow]
    /\ staged = {}
    /\ ctl = [id \in TaskIds |-> IdleRun]
    /\ reply = NoReply
    /\ report = NoReport
    /\ query = NoQuery
    /\ redis = NoStats
    /\ \/ transactions = {} /\ merchants = {}
       \/ transactions = StoreOf(<<EarlierRow>>) /\ merchants = {"M9"}
NextConcurrent ==
    \/ StepsOf({"u1"}, RunUploads)
    \/ count_transactions
    \/ group_categories
    \/ count_customers
    \/ count_repeat_customers
    \/ count_all_and_answer
SpecConcurrent == InitConcurrent /\ [][NextConcurrent]_vars

NextRun == StepsOf({"u1"}, RunUploads)
SpecRun == InitStocked /\ [][NextRun]_vars

(***************************************************************************)
(* The validator over single rows.                                         *)
(***************************************************************************)
\* AMOUNT texts, each with what it denotes once every character but digits,
\* '.' and '-' is dropped: a value in range, a value above 1,000,000, a
\* negative value, or nothing parsable.
AmountCases ==
    {[text |-> <<"0">>, denotes |-> "in range"],
     [text |-> <<"-", "0">>, denotes |-> "in range"],
     [text |-> <<"1", "2", ".", "5">>, denotes |-> "in range"],
     [text |-> <<".", "5">>, denotes |-> "in range"],
     [text |-> <<"$", "1", ",", "0", "0", "0", ",", "0", "0", "0">>, denotes |-> "in range"],
     [text |-> <<"1", "0", "0", "0", "0", "0", "0", ".", "0", "0">>, denotes |-> "in range"],
     [text |-> <<"1", "0", "0", "0", "0", "0", "0", ".", "0", "1">>, denotes |-> "above"],
     [text |-> <<"1", "0", "0", "0", "0", "0", "1">>, denotes |-> "above"],
     [text |-> <<"-", "5">>, denotes |-> "negative"],
     [text |-> <<"-", "0", ".", "0", "1">>, denotes |-> "negative"],
     [text |-> <<"a", "b", "c">>, denotes |-> "unparsable"],
     [text |-> <<"1", ".", "2", ".", "3">>, denotes |-> "unparsable"],
     [text |-> <<"5", "-", "3">>, denotes |-> "unparsable"],
     [text |-> <<"-">>, denotes |-> "unparsable"]}

\* TIMESTAMP cells: with a zone offset, in a slash notation, without an
\* offset, and unparsable, at the instants around the clock's reach.
TimestampCases ==
    {[fmt |-> f, at |-> t, aware |-> f = "iso"] :
       f \in {"iso", "slash_ymd_hms", "dmy_hms", "ymd_hms", "ymd_hm", "ymd", "garbage"},
       t \in 0..(MaxNow + 1)}

\* CUSTOMER_PHONE cells: 11, 10 and 15 digits, too few, too many, none,
\* blank, and absent from the row.
PhoneCases ==
    {Phone,
     <<"(", "5", "5", "5", ")", " ", "1", "2", "3", "-", "4", "5", "6", "7">>,
     <<"1", "2", "3", "4", "5", "6", "7", "8", "9", "0", "1", "2", "3", "4", "5">>,
     <<"1", "2", "3", "4", "5", "6", "7", "8", "9", "0", "1", "2", "3", "4", "5", "6">>,
     <<"5", "5", "5">>, <<"n", "/", "a">>, <<>>, <<" ">>, None}

\* Every amount with every timestamp, and every phone with an amount and a
\* timestamp that pass and with ones that do not.
ValidatorRows ==
    {RawRow("T1", "M1", "grocery", a.text, ts) : a \in AmountCases, ts \in TimestampCases}
    \cup {[RawRow("T1", "M1", "grocery", a, ts) EXCEPT !.CUSTOMER_PHONE = ph] :
            a \in {<<"0">>, <<"a", "b", "c">>}, ts \in {Past, Later}, ph \in PhoneCases}

\* clean_transaction_data(row) is called at the current instant.
Validate(row) ==
    /\ reply' = [op |-> "clean_transaction_data", row |-> row, at |-> now,
                 result |-> clean_transaction_data(row, now)]
    /\ merchants' = MerchantsAfter(merchants, clean_transaction_data(row, now),
                                   "store" \in down)
    /\ UNCHANGED <<now, down, gw, tasks, staged, ctl, transactions, report,
                   query, redis>>

NextValidator ==
    \/ \E row \in ValidatorRows : Validate(row)
    \/ Tick
SpecValidator == Init /\ [][NextValidator]_vars

(***************************************************************************)
(* Properties.                                                             *)
(***************************************************************************)
Terminal == {"COMPLETED", "FAILED"}

\* C1: the stored status of a run changes only along QUEUED -> PROCESSING,
\* PROCESSING -> COMPLETED or PROCESSING -> FAILED, so a COMPLETED or FAILED
\* status never changes again.
C1_StatusLifecycle ==
    [][\A id \in TaskIds :
         (tasks[id] # NoRow /\ tasks'[id] # NoRow /\ tasks'[id].status # tasks[id].status)
         => <<tasks[id].status, tasks'[id].status>>
              \in {<<"QUEUED", "PROCESSING">>, <<"PROCESSING", "COMPLETED">>,
                   <<"PROCESSING", "FAILED">>}]_vars

\* C2: a run whose request got the QUEUED receipt reaches COMPLETED or
\* FAILED: once its controller has run to its end, the stored status is
\* terminal.
C2_AcceptedRunTerminates ==
    \A id \in TaskIds :
        (gw[id].response.status = 200 /\ ctl[id].pc = "done")
        => tasks[id].status \in Terminal

\* C3: for a COMPLETED run, rows_processed + rows_rejected is the number of
\* data rows of its source file.
C3_CountersCoverSource ==
    \A id \in TaskIds :
        tasks[id].status = "COMPLETED"
        => tasks[id].rows_processed + tasks[id].rows_rejected = Len(SourceRows(id))

\* Run r ingests the file of run q again: q is COMPLETED and was completed
\* before the record of r was created.
SecondIngestion(q, r) ==
    /\ q # r
    /\ tasks[q].status = "COMPLETED"
    /\ tasks[r] # NoRow
    /\ tasks[q].completed_at < tasks[r].created_at
    /\ SourceRows(r) = SourceRows(q)

\* No row of the file of run q is dated after the creation of q's record.
NoRowAfterCreation(q) ==
    \A i \in 1..Len(SourceRows(q)) : SourceRows(q)[i].TIMESTAMP.at <= tasks[q].created_at

\* C4 as stated: a second ingestion of a file whose first run has completed
\* leaves the number of stored transactions as it was.
C4_ReingestKeepsCount ==
    [][(\E q, r \in TaskIds : SecondIngestion(q, r))
       => Cardinality(transactions') = Cardinality(transactions)]_vars

\* C4 amended: a second ingestion of a file whose first run has completed
\* leaves the number of stored transactions as it was, provided no row of
\* the file is dated after the creation of the first run.
C4_ReingestKeepsCountOfPastRows ==
    [][(\E q, r \in TaskIds : SecondIngestion(q, r) /\ NoRowAfterCreation(q))
       => Cardinality(transactions') = Cardinality(transactions)]_vars

C4_Witness ==
    \E q, r \in TaskIds :
        /\ SecondIngestion(q, r)
        /\ NoRowAfterCreation(q)
        /\ tasks[r].status = "COMPLETED"
        /\ tasks[r].rows_processed > 0

\* C5: under every interleaving of two runs the store holds no two
\* transactions with one identifier, a bulk insert that meets a stored
\* identifier does not fail the run or count a failed row, and no stored
\* transaction is changed or removed by a later insert.
UniqueIds ==
    \A t1, t2 \in transactions : t1.transaction_id = t2.transaction_id => t1 = t2

MeetsStored(id) ==
    \E i \in 1..Len(ctl[id].batch_data) : Conflicts(transactions, ctl[id].batch_data[i])

C5_ConflictsIgnored ==
    /\ []UniqueIds
    /\ [][/\ \A t \in transactions : t \in transactions'
          /\ \A id \in TaskIds :
                (ctl[id].pc \in {"flush", "final"} /\ MeetsStored(id) /\ ctl'[id] # ctl[id])
                => /\ ctl'[id].pc \in {"progress", "complete"}
                   /\ ctl'[id].rows_failed = ctl[id].rows_failed]_vars

\* A run has flushed a one-row batch whose identifier another run, still
\* executing, had stored with another payload.
C5_Witness ==
    \E id, other \in TaskIds :
        /\ id # other
        /\ ctl[id].pc = "complete"
        /\ ctl[other].pc \in {"row", "flush", "progress", "final", "complete", "cleanup"}
        /\ Len(ctl[id].batch_data) = 1
        /\ \E t \in transactions :
             /\ t.transaction_id = ctl[id].batch_data[1].transaction_id
             /\ t.merchant_id # ctl[id].batch_data[1].merchant_id

\* The row the run `id` is about to handle is one the validator rejects.
RejectedRowNext(id) ==
    /\ ctl[id].pc = "row"
    /\ "fs" \notin down
    /\ ctl[id].next_row <= Len(SourceRows(id))
    /\ LET row == SourceRows(id)[ctl[id].next_row]
       IN  row.AMOUNT = <<"a", "b", "c">> \/ ~clean_transaction_data(row, now).ok

RejectedRows(id) ==
    {i \in 1..Len(SourceRows(id)) : SourceRows(id)[i].AMOUNT = <<"a", "b", "c">>}

\* C6: a row the validator does not accept (AMOUNT = "abc") adds one to the
\* rejected count of the run and nothing else, the run goes on with the next
\* row, and a COMPLETED run has counted every such row.
C6_RejectionIsCounted ==
    /\ [][\A id \in TaskIds :
            (RejectedRowNext(id) /\ ctl'[id] # ctl[id])
            => /\ ctl'[id] = [ctl[id] EXCEPT !.rows_failed = @ + 1, !.next_row = @ + 1]
               /\ tasks' = tasks
               /\ transactions' = transactions]_vars
    /\ [](\A id \in TaskIds :
            tasks[id].status = "COMPLETED"
            => tasks[id].rows_rejected >= Cardinality(RejectedRows(id)))

C6_Witness ==
    \E id \in TaskIds :
        /\ tasks[id].status = "COMPLETED"
        /\ SourceRows(id) = <<RowT1, RowAbc, RowT2>>
        /\ tasks[id].rows_rejected = 1
        /\ tasks[id].rows_processed = 2

\* The file fails one of the pre-flight checks the gateway makes.
FailsACheck(file) ==
    \/ file.name = <<>>
    \/ SizeIsZero(file.size)
    \/ ~EndsWith(file.name, <<".", "c", "s", "v">>)
    \/ SizeTooLarge(file.size)
    \/ file.sample \in {"unreadable", "blank", "malformed"}
    \/ file.header = <<>>
    \/ \E h \in Range(required_headers) : h \notin Range(file.header)

\* C7: a request whose file fails a pre-flight check is answered with a
\* bad-request rejection, and no run record, staged file or controller of
\* it exists.
C7_PreflightRejects ==
    \A id \in TaskIds :
        (gw[id].pc # "idle" /\ FailsACheck(gw[id].file))
        => /\ gw[id].pc = "done"
           /\ gw[id].response.status = 400
           /\ tasks[id] = NoRow
           /\ id \notin staged
           /\ ctl[id] = IdleRun

C7_Witness ==
    \E id \in TaskIds :
        /\ gw[id].response.status = 400
        /\ gw[id].response.message = "File too large (max 3GB)"
        /\ gw[id].file.size = [kib |-> max_size_kib, rem |-> 1]

\* C8: when required headers are absent from the header row, the rejection
\* names exactly the absent ones; a header row with all seven is not
\* rejected, whatever other headers it has.
C8_MissingHeadersNamed ==
    \A id \in TaskIds :
        (/\ gw[id].pc # "idle"
         /\ gw[id].file.name # <<>>
         /\ ~SizeIsZero(gw[id].file.size)
         /\ EndsWith(gw[id].file.name, <<".", "c", "s", "v">>)
         /\ ~SizeTooLarge(gw[id].file.size)
         /\ gw[id].file.sample = "ok"
         /\ gw[id].file.header # <<>>)
        => LET absent == Range(required_headers) \ Range(gw[id].file.header)
           IN  IF absent # {}
               THEN /\ gw[id].response.status = 400
                    /\ gw[id].response.message = "Missing required headers"
                    /\ Range(gw[id].response.missing) = absent
               ELSE gw[id].response.status # 400

\* The fallback is tried only after the dispatch failed, without a
\* controller having been started.
FallbackAfterDispatchFailed ==
    \A id \in TaskIds : gw[id].pc \in {"fallback", "rollback"} => ctl[id].pc = "idle"

\* C9 as stated: the fallback is started only if the dispatch failed, and
\* after a service-unavailable answer neither the run record nor the staged
\* file of the request exists.
C9_RollbackLeavesNothing ==
    /\ FallbackAfterDispatchFailed
    /\ \A id \in TaskIds :
          gw[id].response.status = 503 => (tasks[id] = NoRow /\ id \notin staged)

\* C9 amended: the fallback is started only if the dispatch failed; when
\* both fail the answer is service-unavailable, the staged file is removed
\* unless its removal fails, the run record is deleted unless the removal or
\* the delete fails, and no controller ever runs for the request.
C9_RollbackBestEffort ==
    /\ []FallbackAfterDispatchFailed
    /\ [](\A id \in TaskIds :
            gw[id].response.status = 503
            => /\ ctl[id].pc = "idle"
               /\ (tasks[id] = NoRow => id \notin staged))
    /\ [][\A id \in TaskIds :
            (gw[id].pc = "rollback" /\ gw'[id] # gw[id])
            => /\ gw'[id].response.status = 503
               /\ ("fs" \notin down => id \notin staged')
               /\ (("fs" \notin down /\ "store" \notin down) => tasks'[id] = NoRow)
               /\ ("fs" \in down => (id \in staged' /\ tasks'[id] = tasks[id]))
               /\ ("store" \in down => tasks'[id] = tasks[id])]_vars

C9_Witness ==
    \E id \in TaskIds :
        gw[id].response.status = 503 /\ tasks[id] = NoRow /\ id \notin staged

\* C10: the run record is persisted in QUEUED before the file is staged, the
\* file is staged before the controller is handed off, and the receipt says
\* QUEUED and is returned whatever the run has done meanwhile.
C10_RecordThenFileThenHandoff ==
    /\ [][\A id \in TaskIds :
            /\ (id \notin staged /\ id \in staged') => tasks[id].status = "QUEUED"
            /\ (ctl[id].pc = "idle" /\ ctl'[id].pc # "idle")
               => (tasks[id].status = "QUEUED" /\ id \in staged)
            /\ (gw[id].response.status # 200 /\ gw'[id].response.status = 200)
               => (gw'[id].response.task_status = "QUEUED" /\ ctl[id].pc # "idle")]_vars
    /\ [](\A id \in TaskIds : gw[id].pc = "respond" => ENABLED Respond(id))

\* The receipt is returned while the run is still QUEUED and its controller
\* has not taken a step.
C10_Witness ==
    \E id \in TaskIds :
        /\ gw[id].response.status = 200
        /\ tasks[id].status = "QUEUED"
        /\ ctl[id].pc = "start"

PagedEndpoints == {"dormant_merchants", "anomalies"}

\* C11: dormant-merchants and anomalies answer bad-request, without data,
\* exactly when page < 1, page_size < 1 or page_size > 1000; an accepted
\* request is answered with the page and page_size it gave, and its first
\* page holds page_size items when the result has that many.
C11_PaginationBounds ==
    reply.op \in PagedEndpoints
    => /\ reply.status = 400
          <=> (\/ reply.request.page < 1
               \/ reply.request.page_size < 1
               \/ reply.request.page_size > 1000)
       /\ reply.status = 400 => "data" \notin DOMAIN reply
       /\ reply.status = 200
          => /\ reply.pagination.page = reply.request.page
             /\ reply.pagination.page_size = reply.request.page_size
             /\ Len(reply.data) <= reply.request.page_size
             /\ reply.request.page = 1
                => Len(reply.data) = Min(reply.pagination.total, reply.request.page_size)

\* page = 1, page_size = 2000 on dormant-merchants is rejected.
C11_Witness ==
    /\ reply.op = "dormant_merchants"
    /\ reply.request = [page |-> 1, page_size |-> 2000]
    /\ reply.status = 400
    /\ merchants # {}

\* C12: the hourly pattern has 24 entries, for the hours 0..23 in order;
\* each holds the number of transactions whose timestamp falls in its hour,
\* and count 0 with average 0.0 when there is none.
C12_TwentyFourHours ==
    (reply.op = "hourly_pattern" /\ reply.status = 200)
    => /\ Len(reply.data) = 24
       /\ \A i \in 1..24 :
            /\ reply.data[i].hour = i - 1
            /\ reply.data[i].transaction_count
                 = Cardinality({t \in transactions : t.timestamp % 24 = i - 1})
            /\ reply.data[i].transaction_count = 0 => reply.data[i].average_amount = 0

\* An hour with rows of two days beside an hour with none.
C12_Witness ==
    /\ reply.op = "hourly_pattern"
    /\ reply.status = 200
    /\ reply.data[6].transaction_count = 3
    /\ reply.data[2].transaction_count = 0

Abs(x) == IF x < 0 THEN -x ELSE x

RECURSIVE SumSeq(_)
SumSeq(numbers) ==
    IF numbers = <<>> THEN 0 ELSE Head(numbers) + SumSeq(Tail(numbers))

\* C13: over a non-empty store every category is listed once with its count
\* and with count / total * 100 to the nearest tenth, the counts sum to the
\* reported total and the percentages to 100 within the rounding error;
\* over an empty store the answer is an empty list with total 0.
C13_CategoryShares ==
    (reply.op = "category_distribution" /\ reply.status # 500)
    => /\ reply.status = 200
       /\ reply.total_transactions = Cardinality(transactions)
       /\ transactions = {} => reply.data = <<>>
       /\ {reply.data[i].category : i \in DOMAIN reply.data}
            = {t.category : t \in transactions}
       /\ \A i, j \in DOMAIN reply.data :
            reply.data[i].category = reply.data[j].category => i = j
       /\ \A i \in DOMAIN reply.data :
            LET e == reply.data[i]
            IN  /\ e.transaction_count
                     = Cardinality({t \in transactions : t.category = e.category})
                /\ 2 * Abs(e.percentage * reply.total_transactions
                           - 1000 * e.transaction_count) <= reply.total_transactions
       /\ SumSeq([i \in DOMAIN reply.data |-> reply.data[i].transaction_count]) = reply.total_transactions
       /\ transactions # {}
          => 2 * Abs(SumSeq([i \in DOMAIN reply.data |-> reply.data[i].percentage]) - 1000)
               <= Len(reply.data)

\* Two thirds and one third: 66.7 and 33.3.
C13_Witness ==
    /\ reply.op = "category_distribution"
    /\ reply.status = 200
    /\ Len(reply.data) = 2
    /\ reply.data[1].percentage = 667
    /\ reply.data[2].percentage = 333

\* The rows that lie above mean + 3 * deviation of their own category, the
\* deviation being positive: with n rows of sum S and sum of squares Q,
\* n * Q - S^2 > 0 and n * amount - S > 3 * sqrt(n * Q - S^2).
AboveOwnCategory(t) ==
    LET rows == {x \in transactions : x.category = t.category}
        n == Cardinality(rows)
        S == SumAmount(rows)
        Q == SumAmount({[id |-> x.id, amount |-> x.amount * x.amount] : x \in rows})
    IN  /\ n * Q - S * S > 0
        /\ n * t.amount > S
        /\ (n * t.amount - S) * (n * t.amount - S) > 9 * (n * Q - S * S)

\* C14: the anomaly result holds exactly the transactions whose amount is
\* strictly greater than the mean plus three deviations of their own
\* category, for categories of positive deviation.
C14_AnomalyThreshold ==
    (reply.op = "anomalies" /\ reply.status = 200)
    => /\ reply.pagination.total
            = Cardinality({t \in transactions : AboveOwnCategory(t)})
       /\ (reply.request.page = 1 /\ reply.pagination.total <= reply.request.page_size)
          => {reply.data[i].transaction_id : i \in DOMAIN reply.data}
               = {t.transaction_id : t \in {x \in transactions : AboveOwnCategory(x)}}

\* One Grocery row is flagged; the rows of the same amount in Books and
\* Fashion are not.
C14_Witness ==
    /\ reply.op = "anomalies"
    /\ reply.status = 200
    /\ Len(reply.data) = 1
    /\ reply.data[1].category = "Grocery"
    /\ \E t \in transactions :
         t.category = "Books" /\ t.amount = reply.data[1].amount

\* C15: a status lookup never changes a run record; a malformed identifier
\* is answered not-found even while the store cannot be read, a well-formed
\* one without a record is answered not-found, and an answer reports the
\* record as stored.
C15_LookupReadsOnly ==
    [][(reply' # reply /\ reply'.op = "get_performance_stats")
       => /\ tasks' = tasks
          /\ reply'.request.form = "malformed" => reply'.status = 404
          /\ (/\ reply'.request.form # "malformed"
              /\ "store" \notin down
              /\ (reply'.request.run \notin TaskIds \/ tasks[reply'.request.run] = NoRow))
             => reply'.status = 404
          /\ reply'.status = 200
             => /\ reply'.request.form # "malformed"
                /\ tasks[reply'.request.run] # NoRow
                /\ reply'.task_status = tasks[reply'.request.run].status
                /\ reply'.rows_processed = tasks[reply'.request.run].rows_processed
                /\ reply'.rows_rejected = tasks[reply'.request.run].rows_rejected]_vars

\* A malformed identifier naming an existing run, asked while the store is
\* down.
C15_Witness ==
    /\ reply.op = "get_performance_stats"
    /\ reply.request = [run |-> "u1", form |-> "malformed"]
    /\ reply.status = 404
    /\ tasks["u1"] # NoRow
    /\ "store" \in down

Validated == reply.op = "clean_transaction_data"

\* What the AMOUNT text of the validated row denotes.
Denotes(text) == (CHOOSE a \in AmountCases : a.text = text).denotes

\* The other cells of the validated row pass: its timestamp carries an
\* offset and is not later than the instant of the validation.
TimestampPasses ==
    /\ reply.row.TIMESTAMP.fmt = "iso"
    /\ reply.row.TIMESTAMP.at <= reply.at

\* C16: an accepted record has 0 <= amount <= 1,000,000 (in hundredths);
\* a row is rejected when its AMOUNT, stripped of all but digits, '.' and
\* '-', is above 1,000,000, negative or unparsable, and 1,000,000 itself is
\* accepted.
C16_AmountRange ==
    Validated
    => /\ reply.result.ok
          => (reply.result.data.amount >= 0 /\ reply.result.data.amount <= 100000000)
       /\ Denotes(reply.row.AMOUNT) # "in range" => ~reply.result.ok
       /\ (Denotes(reply.row.AMOUNT) = "in range" /\ TimestampPasses) => reply.result.ok

\* 1,000,000.00 is accepted, as 100,000,000 hundredths.
C16_Witness ==
    /\ Validated
    /\ reply.row.AMOUNT = <<"1", "0", "0", "0", "0", "0", "0", ".", "0", "0">>
    /\ reply.result.ok
    /\ reply.result.data.amount = 100000000

\* The text of the timestamp is one whose parse yields a zoned instant: it
\* carries an offset, or it is in a slash notation and gets the reference
\* zone attached.
Zoned(ts) == (ts.fmt = "iso" /\ ts.aware) \/ ts.fmt \in {"slash_ymd_hms", "dmy_hms"}

\* C17: an accepted record has a timestamp not later than the instant of
\* its validation; a timestamp strictly after that instant is rejected and
\* a zoned timestamp equal to it is accepted.
C17_NotInTheFuture ==
    Validated
    => /\ reply.result.ok => reply.result.data.timestamp <= reply.at
       /\ reply.row.TIMESTAMP.at > reply.at => ~reply.result.ok
       /\ (/\ Zoned(reply.row.TIMESTAMP)
           /\ reply.row.TIMESTAMP.at = reply.at
           /\ Denotes(reply.row.AMOUNT) = "in range")
          => reply.result.ok

\* A timestamp equal to the instant of validation, after the clock moved.
C17_Witness ==
    /\ Validated
    /\ reply.at = 1
    /\ reply.row.TIMESTAMP = [fmt |-> "iso", at |-> 1, aware |-> TRUE]
    /\ reply.result.ok
    /\ reply.result.data.timestamp = 1

DigitCount(text) == Len(SelectSeq(text, IsDigit))

\* C18: an accepted record has a customer phone of 10 to 15 digits or the
\* sentinel INVALID, whatever the CUSTOMER_PHONE cell held, and the phone
\* never rejects a row whose other cells pass.
C18_PhoneOrSentinel ==
    Validated
    => /\ reply.result.ok
          => \/ reply.result.data.customer_phone = INVALID
             \/ DigitCount(reply.result.data.customer_phone) \in 10..15
       /\ (Denotes(reply.row.AMOUNT) = "in range" /\ TimestampPasses) => reply.result.ok

\* C19: once the controller of a COMPLETED run has ended, the staged file
\* of the run no longer exists; while a run is FAILED its staged file is
\* still present.
C19_StagedFileFate ==
    \A id \in TaskIds :
        /\ (tasks[id].status = "COMPLETED" /\ ctl[id].pc = "done") => id \notin staged
        /\ tasks[id].status = "FAILED" => id \in staged

\* C20: the stored counters of a run never decrease, and the step that
\* marks a run FAILED stores an error description and leaves both counters
\* as they were stored.
C20_CountersKept ==
    [][\A id \in TaskIds :
         (tasks[id] # NoRow /\ tasks'[id] # NoRow)
         => /\ tasks'[id].rows_processed >= tasks[id].rows_processed
            /\ tasks'[id].rows_rejected >= tasks[id].rows_rejected
            /\ (tasks[id].status # "FAILED" /\ tasks'[id].status = "FAILED")
               => /\ tasks'[id].error_message \notin {Null, ""}
                  /\ tasks'[id].rows_processed = tasks[id].rows_processed
                  /\ tasks'[id].rows_rejected = tasks[id].rows_rejected]_vars

\* A run that failed after a saved progress update of two rows.
C20_Witness ==
    \E id \in TaskIds :
        /\ tasks[id].status = "FAILED"
        /\ tasks[id].metrics = Null
        /\ tasks[id].rows_processed = batch_size
        /\ tasks[id].error_message # Null

\* C21: a run record in a terminal status, COMPLETED or FAILED, holds the
\* terminal metrics and a completion timestamp.
C21_TerminalMetrics ==
    \A id \in TaskIds :
        tasks[id].status \in Terminal
        => /\ tasks[id].metrics = "populated"
           /\ tasks[id].completed_at # Null

Sections ==
    {"zone_leaderboard", "category_distribution", "dormant_merchants_count",
     "hourly_pattern", "anomalies_count", "customer_retention"}

\* C22: the four sub-queries of the combined report run as concurrent
\* units, the answer is given only when all four have finished, and when
\* one of them failed the answer is the generic query-failed error, with no
\* section of the units that succeeded.
C22_AllOrNothing ==
    reply.op = "full_report"
    => /\ \A u \in Range(Units) : Finished(report.futures[u])
       /\ (\E u \in Range(Units) : report.futures[u].state = "raised")
          => /\ reply = QueryFailed("full_report", <<>>)
             /\ DOMAIN reply \cap Sections = {}
       /\ (\A u \in Range(Units) : report.futures[u].state = "done")
          => reply.status = 200

\* The error answer of a report of which the first unit failed and the
\* three others returned their sections.
C22_Witness ==
    /\ reply.op = "full_report"
    /\ reply.status = 500
    /\ report.futures["zone"].state = "raised"
    /\ \A u \in {"category", "retention", "counts"} : report.futures[u].state = "done"
    /\ report.futures["category"].result # <<>>

\* C23: a successful combined report holds every section, each computed
\* from the stored transactions (the hourly pattern with its 24 entries
\* among them), and one total_query_time_ms.
C23_EverySectionPopulated ==
    (reply.op = "full_report" /\ reply.status = 200)
    => /\ Sections \cup {"total_query_time_ms"} \subseteq DOMAIN reply
       /\ reply.zone_leaderboard \in get_zone_leaderboard(transactions)
       /\ reply.category_distribution \in get_category_distribution(transactions)
       /\ reply.customer_retention = get_customer_retention(transactions)
       /\ reply.dormant_merchants_count = get_counts(transactions, merchants).dormant_count
       /\ reply.anomalies_count = get_counts(transactions, merchants).anomalies_count
       /\ Len(reply.hourly_pattern) = 24
       /\ \A i \in 1..24 :
            reply.hourly_pattern[i].transaction_count
              = Cardinality({t \in transactions : Hour(t.timestamp) = i - 1})

\* C24: on a fixed store, customer retention reports the number of distinct
\* customer phones, the number of phones with more than one transaction, the
\* number with exactly one, which add up to the total, and both ratios as 0
\* when there is no customer.
C24_Retention ==
    (reply.op = "customer_retention" /\ reply.status = 200)
    => LET phones == {t.customer_phone : t \in transactions}
           rows(phone) == {t \in transactions : t.customer_phone = phone}
       IN  /\ reply.total_unique_customers = Cardinality(phones)
           /\ reply.repeat_customers
                = Cardinality({phone \in phones : Cardinality(rows(phone)) > 1})
           /\ reply.single_transaction_customers
                = Cardinality({phone \in phones : Cardinality(rows(phone)) = 1})
           /\ reply.repeat_customers + reply.single_transaction_customers
                = reply.total_unique_customers
           /\ phones = {}
              => /\ reply.average_transactions_per_customer = 0
                 /\ reply.repeat_customer_percentage = 0

\* The answer over six rows of four customers, two of them repeat customers.
C24_Witness ==
    /\ reply.op = "customer_retention"
    /\ reply.status = 200
    /\ reply.total_unique_customers = 4
    /\ reply.repeat_customers = 2
    /\ reply.single_transaction_customers = 2
    /\ reply.average_transactions_per_customer = 150

\* The bulk insert the run `id` is about to issue meets a failing store.
FlushFails(id) ==
    /\ ctl[id].pc \in {"flush", "final"}
    /\ ctl[id].batch_data # <<>>
    /\ "store" \in down

\* C25: a store write failure during a batch flush, of a full batch inside
\* the row loop or of the final partial batch, sends the run to the failure
\* handler, which stores FAILED and an error description; the failure is not
\* counted as a rejected row of a run that goes on.
C25_FlushFailureFails ==
    [][\A id \in TaskIds :
         (FlushFails(id) /\ ctl'[id] # ctl[id])
         => /\ ctl'[id].pc = "handler"
            /\ ctl'[id].rows_failed = ctl[id].rows_failed]_vars

\* C27: the pending batch of a run never holds more than batch_size
\* records, also after a bulk insert has raised, and holds fewer than
\* batch_size whenever the run is about to read a row.
C27_PendingBatchBounded ==
    \A id \in TaskIds :
        /\ Len(ctl[id].batch_data) <= batch_size
        /\ ctl[id].pc = "row" => Len(ctl[id].batch_data) < batch_size

\* The number of the first k rows of the source of run `id` the validator
\* accepts (the rows of RunUploads are dated in the past at every instant).
RECURSIVE AcceptedRows(_, _)
AcceptedRows(id, k) ==
    IF k = 0 THEN 0
    ELSE AcceptedRows(id, k - 1)
         + (IF clean_transaction_data(SourceRows(id)[k], 0).ok THEN 1 ELSE 0)

\* C26: while no service fails, a run over a source with n accepted rows
\* issues ceil(n / batch_size) bulk inserts: one each time the pending batch
\* reaches batch_size, one more for a non-empty remainder at the end of the
\* input, none for a rejected row.
C26_BulkInsertCount ==
    \A id \in TaskIds :
        /\ ctl[id].pc = "row"
           => /\ ctl[id].bulk_create_calls
                   = AcceptedRows(id, ctl[id].next_row - 1) \div batch_size
              /\ Len(ctl[id].batch_data)
                   = AcceptedRows(id, ctl[id].next_row - 1) % batch_size
        /\ ctl[id].pc \in {"complete", "cleanup", "done"}
           => ctl[id].bulk_create_calls
                = (AcceptedRows(id, Len(SourceRows(id))) + batch_size - 1) \div batch_size

\* A completed run over batch_size + 1 accepted rows has issued two bulk
\* inserts.
C26_Witness ==
    \E id \in TaskIds :
        /\ tasks[id].status = "COMPLETED"
        /\ AcceptedRows(id, Len(SourceRows(id))) = batch_size + 1
        /\ ctl[id].bulk_create_calls = 2

\* The transactions the run of the model has added to the store: those that
\* are not the prior row.
AddedRows == {t \in transactions : t.merchant_id # PriorRow.merchant_id}

\* C28: the rows_processed of a COMPLETED run is the number of rows the
\* validator accepted, a row whose identifier was stored before or appears
\* twice in the file included, and is not less than the number of
\* transactions the run added to the store.
C28_ProcessedCountsAccepted ==
    \A id \in TaskIds :
        tasks[id].status = "COMPLETED"
        => /\ tasks[id].rows_processed = AcceptedRows(id, Len(SourceRows(id)))
           /\ tasks[id].rows_processed >= Cardinality(AddedRows)

\* A completed run counted two accepted rows of which one, T1, was in the
\* store before, so that it added one transaction.
C28_Witness ==
    \E id \in TaskIds :
        /\ tasks[id].status = "COMPLETED"
        /\ SourceRows(id) = <<RowT1, RowT2>>
        /\ tasks[id].rows_processed = 2
        /\ PriorRow.merchant_id \in merchants
        /\ Cardinality(AddedRows) = 1

\* The notations without a zone offset that the validator is to accept: the
\* five fallback formats, three of which are ISO-8601 notations as well.
UnzonedFormats == {"ymd_hms", "ymd_hm", "slash_ymd_hms", "dmy_hms", "ymd"}

\* C29: a row whose timestamp has no zone offset, is in one of the known
\* notations and is not in the future is accepted, with its instant read in
\* the reference zone; such a row is rejected only if no notation matches
\* or the instant lies in the future.
C29_UnzonedAccepted ==
    (Validated /\ ~reply.row.TIMESTAMP.aware /\ Denotes(reply.row.AMOUNT) = "in range")
    => LET ts == reply.row.TIMESTAMP
       IN  /\ (ts.fmt \in UnzonedFormats /\ ts.at <= reply.at)
              => (reply.result.ok /\ reply.result.data.timestamp = ts.at)
           /\ ~reply.result.ok => (ts.fmt \notin UnzonedFormats \/ ts.at > reply.at)

\* The row the run `id` is about to handle is accepted and names merchant m.
AcceptedRowNames(id, m) ==
    /\ ctl[id].pc = "row"
    /\ ctl[id].next_row <= Len(SourceRows(id))
    /\ LET result == clean_transaction_data(SourceRows(id)[ctl[id].next_row], now)
       IN  result.ok /\ result.data.merchant_id = m

\* C30: under every interleaving of two runs, a merchant record appears
\* only in the step that accepts a row naming that merchant, a rejected row
\* adds none, and no record of the table (keyed by merchant_id, one record
\* per identifier) is removed.
C30_MerchantsOnlyCreated ==
    [][/\ merchants \subseteq merchants'
       /\ \A m \in merchants' \ merchants :
            \E id \in TaskIds : AcceptedRowNames(id, m) /\ ctl'[id] # ctl[id]
       /\ \A id \in TaskIds :
            (RejectedRowNext(id) /\ ctl'[id] # ctl[id]) => merchants' = merchants]_vars

\* A run rejected a row naming M2 and accepted a row naming M1: M1 has a
\* record and M2 has none.
C30_Witness ==
    \E id \in TaskIds :
        /\ ctl[id].rows_failed = 1
        /\ SourceRows(id) = <<RowT1Later, RowT1>>
        /\ ctl[id].pc = "final"
        /\ merchants = {"M1"}

\* The transactions the anomaly detector flags.
FlaggedRows == {t \in transactions : AboveOwnCategory(t)}

\* C31: the anomaly result is sorted by amount, descending, before it is cut
\* into pages: within a page the amounts do not increase, and an item of
\* page k has fewer than k * page_size flagged rows above it and more than
\* (k - 1) * page_size flagged rows at or above it, so that no item of page
\* k lies below an item of page k + 1.
C31_SortedBeforePaging ==
    (/\ reply.op = "anomalies"
     /\ reply.status = 200
     /\ reply.request.page <= reply.pagination.total_pages)
    => /\ \A i, j \in DOMAIN reply.data :
            i < j => reply.data[i].amount >= reply.data[j].amount
       /\ \A i \in DOMAIN reply.data :
            /\ Cardinality({t \in FlaggedRows : t.amount > reply.data[i].amount})
                 < reply.request.page * reply.request.page_size
            /\ Cardinality({t \in FlaggedRows : t.amount >= reply.data[i].amount})
                 > (reply.request.page - 1) * reply.request.page_size

\* The second page of two items holds the lowest of three flagged rows of
\* two categories.
C31_Witness ==
    /\ reply.op = "anomalies"
    /\ reply.status = 200
    /\ reply.request = [page |-> 2, page_size |-> 2]
    /\ reply.pagination.total = 3
    /\ Len(reply.data) = 1
    /\ reply.data[1].amount = 85
    /\ reply.data[1].category = "Books"

\* The rows that lie above mean + 3 * sample deviation (divisor n - 1) of
\* their own category of at least two rows: with d = n * amount - S,
\* d > 0 and d^2 * (n - 1) > 9 * n * (n * Q - S^2).
AboveSampleThreshold(t) ==
    LET rows == {x \in transactions : x.category = t.category}
        n == Cardinality(rows)
        S == SumAmount(rows)
        Q == SumAmount({[id |-> x.id, amount |-> x.amount * x.amount] : x \in rows})
        d == n * t.amount - S
    IN  /\ n >= 2
        /\ n * Q - S * S > 0
        /\ d > 0
        /\ d * d * (n - 1) > 9 * n * (n * Q - S * S)

\* C34: the anomaly result holds the transactions above the mean plus three
\* sample deviations (divisor n - 1) of their own category, a category of
\* one transaction being skipped.
C34_SampleDeviation ==
    (reply.op = "anomalies" /\ reply.status = 200)
    => reply.pagination.total
         = Cardinality({t \in transactions : AboveSampleThreshold(t)})

\* C35: when the gateway has answered with anything other than the QUEUED
\* receipt, no run record of the submission exists; in particular a failed
\* write of the staged file leaves no QUEUED record behind.
C35_NoRecordWithoutReceipt ==
    \A id \in TaskIds :
       (gw[id].pc = "done" /\ gw[id].response.status # 200) => tasks[id] = NoRow

\* C39: an accepted request to a paged endpoint is answered with the items
\* at positions (page - 1) * page_size + 1 .. page * page_size of the
\* result, and a page number above total_pages with an empty data list.
C39_PagePositions ==
    (reply.op \in PagedEndpoints /\ reply.status = 200)
    => /\ reply.request.page <= reply.pagination.total_pages
          => Len(reply.data)
               = Min(reply.request.page * reply.request.page_size, reply.pagination.total)
                 - (reply.request.page - 1) * reply.request.page_size
       /\ reply.request.page > reply.pagination.total_pages => reply.data = <<>>

\* No controller is running, and a run has reached COMPLETED.
CompletedAndQuiet ==
    /\ \A id \in TaskIds : ctl[id].pc \in {"idle", "done"}
    /\ \E id \in TaskIds : tasks[id] # NoRow /\ tasks[id].status = "COMPLETED"

\* Merchant m is referenced by no stored transaction.
Dormant(m) == \A t \in transactions : t.merchant_id # m

\* C36: once the runs have completed without a store error, every
\* merchant record they created is referenced by a stored transaction, also
\* when one transaction identifier appears on rows of different merchants.
C36_CreatedMerchantsActive ==
    CompletedAndQuiet => \A m \in merchants : ~Dormant(m)

\* The step of run `id` that saves the COMPLETED record.
Completes(id) == ctl[id].pc = "complete" /\ ctl'[id].pc = "cleanup"

\* The differences of the two snapshots of run `id`, the second being taken
\* in the current state.
HitsOf(id) == redis.keyspace_hits - ctl[id].initial_redis_stats.keyspace_hits
MissesOf(id) == redis.keyspace_misses - ctl[id].initial_redis_stats.keyspace_misses

\* While only the counter service fails, no run is FAILED and a finished run
\* has counted every accepted row as processed and every other row as
\* rejected.
UnaffectedByCounter ==
    \A id \in TaskIds :
       /\ tasks[id] # NoRow => tasks[id].status # "FAILED"
       /\ ctl[id].pc = "done"
          => /\ tasks[id].status = "COMPLETED"
             /\ tasks[id].rows_processed = AcceptedRows(id, Len(SourceRows(id)))
             /\ tasks[id].rows_rejected
                  = Len(SourceRows(id)) - AcceptedRows(id, Len(SourceRows(id)))

\* The ratio 0.0 is recorded when one of the snapshots failed.
ZeroWithoutSnapshot ==
    \A id \in TaskIds :
       (Completes(id) /\ (ctl[id].initial_redis_stats = NoSnapshot \/ "counter" \in down))
       => tasks'[id].cache_hit_rate = 0

\* C32 as stated: an unavailable counter service never fails a run nor
\* changes its row counters, and the recorded ratio is 0.0 when a snapshot
\* failed or hits + misses is zero, and hits / (hits + misses) otherwise.
C32_ExactRatio ==
    /\ []UnaffectedByCounter
    /\ [][/\ ZeroWithoutSnapshot
          /\ \A id \in TaskIds :
               (Completes(id) /\ ctl[id].initial_redis_stats # NoSnapshot /\ "counter" \notin down)
               => IF HitsOf(id) + MissesOf(id) = 0
                  THEN tasks'[id].cache_hit_rate = 0
                  ELSE tasks'[id].cache_hit_rate * (HitsOf(id) + MissesOf(id))
                         = 100 * HitsOf(id)]_vars

\* C32 amended: an unavailable counter service never fails a run nor changes
\* its row counters, and the recorded ratio is 0.0 when a snapshot failed or
\* hits + misses is not positive, and otherwise hits / (hits + misses)
\* rounded to two decimals.
C32_RoundedRatio ==
    /\ []UnaffectedByCounter
    /\ [][/\ ZeroWithoutSnapshot
          /\ \A id \in TaskIds :
               (Completes(id) /\ ctl[id].initial_redis_stats # NoSnapshot /\ "counter" \notin down)
               => IF HitsOf(id) + MissesOf(id) <= 0
                  THEN tasks'[id].cache_hit_rate = 0
                  ELSE 2 * Abs(tasks'[id].cache_hit_rate * (HitsOf(id) + MissesOf(id))
                               - 100 * HitsOf(id))
                         <= HitsOf(id) + MissesOf(id)]_vars

\* A run that took its first snapshot and found the counter service down at
\* the end has completed with both accepted rows and ratio 0.0, although the
\* service had counted hits in between.
C32_Witness ==
    /\ ctl["u1"].pc = "done"
    /\ ctl["u1"].initial_redis_stats = NoStats
    /\ redis.keyspace_hits = 2
    /\ "counter" \in down
    /\ tasks["u1"].status = "COMPLETED"
    /\ tasks["u1"].rows_processed = 2
    /\ tasks["u1"].rows_rejected = 1
    /\ tasks["u1"].cache_hit_rate = 0

\* The stored status of run `id` is QUEUED.
StoredQueued(id) == tasks[id] # NoRow /\ tasks[id].status = "QUEUED"

\* The run `id` found its staged file missing.
FileMissing(id) == ctl[id].error = "File not found"

\* C33: the controller saves PROCESSING before it opens the source: while
\* the stored status of a run is QUEUED the run has read no row, and no step
\* of it reads a row or writes a transaction or a merchant; a run whose
\* staged file is missing is PROCESSING when it notices and FAILED when it
\* ends, having read no row.
C33_ProcessingBeforeOpen ==
    /\ [](\A id \in TaskIds :
            /\ StoredQueued(id)
               => (ctl[id].pc \in {"idle", "start"} /\ ctl[id].next_row = 1)
            /\ FileMissing(id)
               => /\ ctl[id].next_row = 1
                  /\ ctl[id].rows_processed = 0 /\ ctl[id].rows_failed = 0
                  /\ transactions = {} /\ merchants = {}
                  /\ ctl[id].pc = "handler" => tasks[id].status = "PROCESSING"
                  /\ ctl[id].pc = "done"
                     => /\ tasks[id].status = "FAILED"
                        /\ tasks[id].error_message = "File not found")
    /\ [][\A id \in TaskIds :
            (StoredQueued(id) /\ ctl'[id] # ctl[id])
            => /\ transactions' = transactions
               /\ merchants' = merchants
               /\ ctl'[id].next_row = ctl[id].next_row
               /\ ctl'[id].pc \in {"start", "open"}]_vars

\* A run over a file of three rows ended FAILED because its staged file was
\* gone, with nothing read and nothing stored.
C33_Witness ==
    /\ ctl["u1"].pc = "done"
    /\ FileMissing("u1")
    /\ Len(SourceRows("u1")) = 3
    /\ tasks["u1"].status = "FAILED"
    /\ tasks["u1"].rows_processed = 0
    /\ "u1" \notin staged

\* C37: a category-distribution answer given while a run inserts has every
\* percentage at most 100 and transaction counts that sum to its
\* total_transactions.
C37_SharesWithinTotal ==
    (reply.op = "category_distribution" /\ reply.status = 200)
    => /\ \A i \in DOMAIN reply.data : reply.data[i].percentage <= 1000
       /\ SumSeq([i \in DOMAIN reply.data |-> reply.data[i].transaction_count])
            = reply.total_transactions

\* C38: a customer-retention answer given while a run inserts has at most
\* as many repeat customers as unique customers, and a number of
\* single-transaction customers that is not negative.
C38_RepeatWithinUnique ==
    (reply.op = "customer_retention" /\ reply.status = 200)
    => /\ reply.repeat_customers <= reply.total_unique_customers
       /\ reply.single_transaction_customers >= 0

\* The answer of the combined report that has been assembled.
Assembled == report_response(report, now)

\* The retention section and the two counts of the report equal the answers
\* of the standalone endpoints.
CountsAgree ==
    /\ reply.op = "customer_retention"
       => \A field \in DOMAIN Assembled.customer_retention :
             reply[field] = Assembled.customer_retention[field]
    /\ reply.op = "anomalies" => reply.pagination.total = Assembled.anomalies_count
    /\ reply.op = "dormant_merchants"
       => reply.pagination.total = Assembled.dormant_merchants_count

\* C40 as stated: over the same tables the sections zone_leaderboard,
\* category_distribution and customer_retention of the combined report equal
\* the data of the standalone endpoints, anomalies_count equals the total of
\* the anomalies endpoint and dormant_merchants_count the total of the
\* dormant-merchants endpoint.
C40_ReportEquals ==
    (report.pc = "done" /\ ~report.raised /\ reply.status = 200)
    => /\ reply.op = "zone_leaderboard" => reply.data = Assembled.zone_leaderboard
       /\ reply.op = "category_distribution"
          => reply.data = Assembled.category_distribution
       /\ CountsAgree

\* C40 amended: over the same tables the customer_retention section, the
\* anomalies_count and the dormant_merchants_count of the combined report
\* equal the answers of the standalone endpoints, and the zone_leaderboard
\* and category_distribution sections hold the entries of the standalone
\* endpoints in the same order apart from entries whose sort key (total
\* amount, transaction count) is equal.
C40_ReportAgrees ==
    (report.pc = "done" /\ ~report.raised /\ reply.status = 200)
    => /\ reply.op = "zone_leaderboard"
          => LET a == reply.data
                 b == Assembled.zone_leaderboard
                 unranked(e) == [zone |-> e.zone, total_amount |-> e.total_amount,
                                 transaction_count |-> e.transaction_count,
                                 average_amount |-> e.average_amount]
             IN  /\ Len(a) = Len(b)
                 /\ \A i \in DOMAIN a :
                      a[i].rank = b[i].rank /\ a[i].total_amount = b[i].total_amount
                 /\ {unranked(a[i]) : i \in DOMAIN a} = {unranked(b[i]) : i \in DOMAIN b}
       /\ reply.op = "category_distribution"
          => LET a == reply.data
                 b == Assembled.category_distribution
             IN  /\ Len(a) = Len(b)
                 /\ \A i \in DOMAIN a : a[i].transaction_count = b[i].transaction_count
                 /\ {a[i] : i \in DOMAIN a} = {b[i] : i \in DOMAIN b}
       /\ CountsAgree

\* After a report that lists Books before Fashion, both of one transaction,
\* the category-distribution endpoint lists Fashion before Books.
C40_Witness ==
    /\ report.pc = "done"
    /\ ~report.raised
    /\ reply.op = "category_distribution"
    /\ reply.status = 200
    /\ Len(reply.data) = 3
    /\ reply.data[2].category = "Fashion"
    /\ Assembled.category_distribution[2].category = "Books"
    /\ reply.data[2].transaction_count = 1
    /\ reply.data[3].transaction_count = 1

====
